---- MODULE Spec2Model ----
(***************************************************************************)
(* Streaming transcription pipeline of macos-realtime-captions:            *)
(* AudioRecorder (capture callback -> frame queue), Transcriber            *)
(* (_run_loop: drain, preview/commit decision, pause handshake) and        *)
(* CaptionWindow (click-to-translate tasks borrowing the inference         *)
(* hardware through pause()/resume()).                                     *)
(*                                                                         *)
(* Units: samples are counted exactly (SAMPLE_RATE per second); the       *)
(* duration thresholds are in tenths of a second; amplitudes are in       *)
(* thousandths.  The loop clock (now - last_transcribe_time) is counted   *)
(* in whole update intervals (0.5 s) and the translation wait in whole    *)
(* seconds; a sleep shorter than one unit may or may not cross a unit     *)
(* boundary, and every sleep and every engine call may take longer than   *)
(* asked, so the time a step adds is chosen nondeterministically.         *)
(***************************************************************************)
EXTENDS Integers, Sequences, FiniteSets, TLC

\* ------------------------------------------------------------------ bounds
MaxFrames == 3
FrameSamples == 16000
MaxTasks == 2
LongFrames == 16
LOUD == 20
MaxLogs == 3

\* ------------------------------------------------------- program constants
SAMPLE_RATE == 16000
silence_threshold == 10
min_duration == 10
max_duration == 150
update_interval == 1
LAST_CHUNK_TENTHS == 5
PROMPT_CHARS == 200
CONTEXT_CHARS == 1000
WAIT_TIMEOUT == 3

\* ------------------------------------------------------------ input domains
Amps == {0, LOUD}
Tasks == 1..MaxTasks
NoFrame == [id |-> 0, n |-> 0, amp |-> 0]

\* What an engine call may return before .strip(): nothing, blanks, a
\* fragment, a sentence, and a sentence in another letter case.
FastTexts == { <<>>, <<"h", "i">>, <<" ", "h", "i", ".">>, <<"H", "I", ".">> }
QualityTexts == { <<>>, <<" ", "h", "i", ".">> }

ElapsedCap == update_interval + 1

Min(a, b) == IF a < b THEN a ELSE b

\* ------------------------------------------------------------ pure helpers
IsSpace(c) == c = " "

LowerChar(c) == IF c = "H" THEN "h" ELSE IF c = "I" THEN "i" ELSE c

Lower(s) == [i \in 1..Len(s) |-> LowerChar(s[i])]

RECURSIVE LStrip(_)
LStrip(s) == IF s # <<>> /\ IsSpace(Head(s)) THEN LStrip(Tail(s)) ELSE s

RECURSIVE RStrip(_)
RStrip(s) ==
  IF s # <<>> /\ IsSpace(s[Len(s)]) THEN RStrip(SubSeq(s, 1, Len(s) - 1)) ELSE s

Strip(s) == RStrip(LStrip(s))

EndsWithTerminal(s) == s # <<>> /\ s[Len(s)] \in {".", "!", "?"}

\* s[-k:]
LastChars(s, k) == IF Len(s) > k THEN SubSeq(s, Len(s) - k + 1, Len(s)) ELSE s

RECURSIVE NumSamples(_)
NumSamples(buf) == IF buf = <<>> THEN 0 ELSE Head(buf).n + NumSamples(Tail(buf))

RECURSIVE SumSq(_)
SumSq(buf) ==
  IF buf = <<>> THEN 0
  ELSE Head(buf).amp * Head(buf).amp * Head(buf).n + SumSq(Tail(buf))

\* sum of squares of the last k samples of buf (k <= NumSamples(buf))
RECURSIVE TailSumSq(_, _)
TailSumSq(buf, k) ==
  IF k = 0 \/ buf = <<>> THEN 0
  ELSE LET f == buf[Len(buf)]
           m == Min(k, f.n)
       IN  f.amp * f.amp * m + TailSumSq(SubSeq(buf, 1, Len(buf) - 1), k - m)

\* np.sqrt(np.mean(x**2)) < silence_threshold, for a non-empty x
RmsBelowThreshold(sumsq, n) == sumsq < silence_threshold * silence_threshold * n

BufferSilent(buf) == RmsBelowThreshold(SumSq(buf), NumSamples(buf))

\* current_duration >= min_duration, < max_duration, > max_duration
DurAtLeastMin(buf) == NumSamples(buf) * 10 >= min_duration * SAMPLE_RATE
DurBelowMax(buf) == NumSamples(buf) * 10 < max_duration * SAMPLE_RATE
DurAboveMax(buf) == NumSamples(buf) * 10 > max_duration * SAMPLE_RATE

last_chunk_len == (LAST_CHUNK_TENTHS * SAMPLE_RATE) \div 10

IsSilenceEnd(buf) ==
  IF NumSamples(buf) > last_chunk_len
  THEN RmsBelowThreshold(TailSumSq(buf, last_chunk_len), last_chunk_len)
  ELSE TRUE

\* a prompt that is the whole context
BuildPrompt_Whole(ctx) == IF ctx # <<>> THEN ctx ELSE <<" ">>

BuildPrompt(ctx) == IF ctx # <<>> THEN LastChars(ctx, PROMPT_CHARS) ELSE <<" ">>

\* a filter that compares with the prompt letter for letter, case included
EchoFilter_CaseSensitive(raw, prompt) ==
  IF Strip(raw) = Strip(prompt) THEN <<>> ELSE Strip(raw)

\* text after .strip() and the anti-hallucination filter
EchoFilter(raw, prompt) ==
  IF Lower(Strip(raw)) = Lower(Strip(prompt)) THEN <<>> ELSE Strip(raw)

\* a commit test without the cap on the duration
ShouldCommit_NoCap(text, buf) == EndsWithTerminal(text) /\ IsSilenceEnd(buf)

\* a commit test that always says yes
ShouldCommit_Always(text, buf) == TRUE

ShouldCommit(text, buf) ==
  (EndsWithTerminal(text) /\ IsSilenceEnd(buf)) \/ DurAboveMax(buf)

\* a context that takes the text without the space before it
AppendContext_NoSpace(ctx, final) == LastChars(ctx \o final, CONTEXT_CHARS)

AppendContext(ctx, final) == LastChars(ctx \o <<" ">> \o final, CONTEXT_CHARS)


\* ------------------------------------------------------------------- state
VARIABLES
  audio_queue,           \* queue.Queue shared by recorder and transcriber
  next_id,               \* number of frames the hardware has delivered
  rec_running,           \* AudioRecorder.running
  stop_event,            \* Transcriber.stop_event
  pause_event,           \* Transcriber.pause_event (pause request)
  transcription_paused,  \* Transcriber.transcription_paused (acknowledged)
  local_audio_buffer,    \* Transcriber.local_audio_buffer, a sequence of frames
  last_committed_text,   \* Transcriber.last_committed_text (trailing context)
  elapsed,               \* now - last_transcribe_time, capped at ElapsedCap
  since_fast,            \* time since the last fast engine call began, capped
  lpc,                   \* position of the loop thread
  data,                  \* the frame just taken by get_nowait()
  prompt,                \* prompt of the tick's engine calls
  fast_text,             \* the tick's fast text after strip and echo filter
  tick_log,              \* what the current tick has done so far
  appended,              \* ids of the frames appended to the buffer, in order
  committed_samples,     \* samples discarded by commits so far
  transcript_log,        \* number of log_to_file() entries
  segments,              \* number of seg_ tags (committed texts) displayed
  active_translations,   \* CaptionWindow.active_translations
  cleanup_pending,       \* cleanup_lock calls scheduled with root.after
  translation_model,     \* CaptionWindow.translation_model is loaded
  preload_pending,       \* the preload thread of __init__ has not ended
  task,                  \* the perform_translation threads
  text_area,             \* CaptionWindow.text_area: characters and their tags
  last_on_text,          \* the emission update_text was last called with
  stream,                \* AudioRecorder.stream: "none", "created", "open"
  cb_pc,                 \* position of the hardware callback thread
  open_streams,          \* input streams opened and not yet closed
  start_error,           \* the last AudioRecorder.start() raised to its caller
  mpc,                   \* position of the main thread inside a handler
  config_window,         \* CaptionWindow.config_window exists
  start_pending,         \* root.after(500, self.start_processing) not yet run
  lcur,                  \* the loop thread above is Transcriber.thread
  lstopped,              \* a stop() that joined this loop thread has returned
  other,                 \* a second loop thread, not scheduled at the moment
  session_base,          \* frames delivered before this AudioRecorder was made
  foreign                \* the transcriber above is one that was replaced

vars ==
  << audio_queue, next_id, rec_running, stop_event, pause_event,
     transcription_paused, local_audio_buffer, last_committed_text, elapsed, since_fast,
     lpc, data, prompt, fast_text, tick_log, appended, committed_samples,
     transcript_log, segments, active_translations, cleanup_pending,
     translation_model, preload_pending, task, text_area, last_on_text,
     stream, cb_pc, open_streams,
     start_error, mpc, config_window, start_pending, session_base, lcur, lstopped, other,
     foreign >>

\* the recorder's stream, the main thread's handlers and the loop threads
lifeVars ==
  << stream, cb_pc, open_streams, start_error, mpc, config_window,
     start_pending, session_base, lcur, lstopped, other, foreign >>

recorderVars == << audio_queue, next_id, rec_running >>
gateVars == << pause_event, transcription_paused >>
loopVars ==
  << stop_event, local_audio_buffer, last_committed_text, elapsed, since_fast, lpc, data,
     prompt, fast_text, tick_log, appended, committed_samples, transcript_log,
     segments >>
uiVars ==
  << active_translations, cleanup_pending, translation_model, preload_pending,
     task, text_area, last_on_text >>

FreeTask == [pc |-> "free", seg |-> 0, waited |-> 0, acked |-> FALSE,
             raised |-> FALSE, status |-> FALSE]

\* a thread is alive from Thread.start() until _run_loop returns
Alive(pc) == pc \notin {"none", "done"}

\* the fields of a Transcriber object that its loop threads share
NoObj == [stop_event |-> FALSE, pause_event |-> FALSE,
          transcription_paused |-> FALSE, local_audio_buffer |-> <<>>,
          last_committed_text |-> <<>>, elapsed |-> 0, since_fast |-> 0,
          appended |-> <<>>,
          committed_samples |-> 0]

\* no second loop thread
NoOther == [pc |-> "none", data |-> NoFrame, prompt |-> <<>>,
            fast_text |-> <<>>, tick_log |-> <<>>, cur |-> FALSE,
            stopped |-> FALSE, own |-> FALSE, obj |-> NoObj]

\* before start_processing has run: nothing is started
InitLife ==
  /\ stream = "none"
  /\ cb_pc = "idle"
  /\ open_streams = 0
  /\ start_error = FALSE
  /\ mpc = "idle"
  /\ config_window = FALSE
  /\ start_pending = TRUE
  /\ session_base = 0
  /\ lcur = FALSE
  /\ lstopped = FALSE
  /\ other = NoOther
  /\ foreign = FALSE

\* after start_processing: the stream is open, the loop thread is started
RunningLife ==
  /\ stream = "open"
  /\ cb_pc = "idle"
  /\ open_streams = 1
  /\ start_error = FALSE
  /\ mpc = "idle"
  /\ config_window = FALSE
  /\ start_pending = FALSE
  /\ session_base = 0
  /\ lcur = TRUE
  /\ lstopped = FALSE
  /\ other = NoOther
  /\ foreign = FALSE

\* Transcriber.__init__, AudioRecorder.__init__ and CaptionWindow.__init__
InitTranscriber ==
  /\ stop_event = FALSE
  /\ pause_event = FALSE
  /\ transcription_paused = FALSE
  /\ local_audio_buffer = <<>>
  /\ last_committed_text = <<>>
  /\ elapsed = ElapsedCap
  /\ since_fast = ElapsedCap
  /\ lpc = "none"
  /\ data = NoFrame
  /\ prompt = <<>>
  /\ fast_text = <<>>
  /\ tick_log = <<>>
  /\ appended = <<>>
  /\ committed_samples = 0
  /\ transcript_log = 0
  /\ segments = 0

InitRecorder ==
  /\ audio_queue = <<>>
  /\ next_id = 0
  /\ rec_running = FALSE

\* ------------------------------------------------ CaptionWindow.text_area
\* the texts the engine returns in the runs: a fragment and a sentence
Fragment == <<"h", "i">>
Sentence == <<"h", "i", ".">>

Newline == "\n"
NoEmission == [text |-> <<>>, final |-> TRUE]

\* insert(tk.END, chars, tag): every inserted character carries the tag
TagText(chars, tag) == [i \in 1..Len(chars) |-> [ch |-> chars[i], tag |-> tag]]

\* the characters of the widget that carry one tag, in display order
TaggedChars(ta, tag) ==
  LET sel == SelectSeq(ta, LAMBDA c : c.tag = tag)
  IN  [i \in 1..Len(sel) |-> sel[i].ch]

PendingAt(ta) == {i \in 1..Len(ta) : ta[i].tag = "pending"}

DeletePending_Keep(ta) == ta

\* delete("pending.first", "pending.last"): the range from the first to the
\* last character tagged pending; a TclError (no such character) is passed
DeletePending(ta) ==
  IF PendingAt(ta) = {} THEN ta
  ELSE LET first == CHOOSE i \in PendingAt(ta) : \A j \in PendingAt(ta) : i <= j
           last  == CHOOSE i \in PendingAt(ta) : \A j \in PendingAt(ta) : j <= i
       IN  SubSeq(ta, 1, first - 1) \o SubSeq(ta, last + 1, Len(ta))

\* the prefix of update_text: a paragraph break after paragraph_threshold
\* seconds without a final text (para), else one space unless the display is
\* empty, ends with a space or a newline, or the text starts with a space
TextPrefix(ta, text, para) ==
  IF para THEN << Newline, Newline >>
  ELSE IF ta # <<>> /\ ta[Len(ta)].ch \notin {" ", Newline} /\ text[1] # " "
       THEN << " " >>
       ELSE <<>>

\* update_text(text, is_final) on the widget
UpdateTextArea(ta, text, final, para) ==
  LET d == DeletePending(ta)
  IN  IF text = <<>> THEN d
      ELSE d \o TagText(TextPrefix(d, text, para) \o text,
                        IF final THEN "seg" ELSE "pending")

\* the display after n sentences were committed in one paragraph
RECURSIVE DisplayOf(_)
DisplayOf(n) ==
  IF n = 0 THEN <<>> ELSE UpdateTextArea(DisplayOf(n - 1), Sentence, TRUE, FALSE)

InitWindow ==
  /\ active_translations = {}
  /\ cleanup_pending = {}
  /\ translation_model = FALSE
  /\ preload_pending = TRUE
  /\ task = [t \in Tasks |-> FreeTask]
  /\ text_area = DisplayOf(segments)
  /\ last_on_text = NoEmission

Init == InitTranscriber /\ InitRecorder /\ InitWindow /\ InitLife

\* ----------------------------------------------------------- AudioRecorder
\* the stream calls _audio_callback: if self.running:
CallbackEnter ==
  /\ stream = "open"
  /\ cb_pc = "idle"
  /\ next_id < MaxFrames
  /\ rec_running
  /\ cb_pc' = "put"
  /\ UNCHANGED << stream, open_streams, start_error, mpc, config_window,
                  start_pending, session_base, lcur, lstopped, other, foreign,
                  recorderVars, gateVars, loopVars, uiVars >>

\* self.audio_queue.put(indata.copy()): one frame of FrameSamples samples
AudioCallback(amp) ==
  /\ cb_pc = "put"
  /\ cb_pc' = "idle"
  /\ next_id' = next_id + 1
  /\ audio_queue' =
       Append(audio_queue, [id |-> next_id + 1, n |-> FrameSamples, amp |-> amp])
  /\ UNCHANGED << stream, open_streams, start_error, mpc, config_window,
                  start_pending, session_base, lcur, lstopped, other, foreign,
                  rec_running, gateVars, loopVars, uiVars >>

\* what opening the device does: the stream is opened and started, or
\* sd.InputStream(...) raises, or stream.start() raises
StartResults == {"ok", "open_fails", "start_fails"}

\* a start() that keeps a failure to itself
RecorderStart_Swallow(running, res) ==
  IF running
  THEN /\ UNCHANGED << rec_running, stream, open_streams >>
       /\ start_error' = FALSE
  ELSE /\ rec_running' = TRUE
       /\ stream' = (IF res = "ok" THEN "open"
                     ELSE IF res = "start_fails" THEN "created" ELSE "none")
       /\ open_streams' = (IF res = "open_fails" THEN open_streams
                           ELSE open_streams + 1)
       /\ start_error' = FALSE

\* a start() that opens a stream whether or not the recorder is running
RecorderStart_Always(running, res) ==
  /\ rec_running' = TRUE
  /\ stream' = (IF res = "ok" THEN "open"
                ELSE IF res = "start_fails" THEN "created" ELSE "none")
  /\ open_streams' = (IF res = "open_fails" THEN open_streams
                      ELSE open_streams + 1)
  /\ start_error' = (res # "ok")

\* AudioRecorder.start on a recorder whose running flag is running and that
\* holds no stream unless it is running
RecorderStart(running, res) ==
  IF running
  THEN /\ UNCHANGED << rec_running, stream, open_streams >>
       /\ start_error' = FALSE
  ELSE /\ rec_running' = TRUE
       /\ stream' = (IF res = "ok" THEN "open"
                     ELSE IF res = "start_fails" THEN "created" ELSE "none")
       /\ open_streams' = (IF res = "open_fails" THEN open_streams
                           ELSE open_streams + 1)
       /\ start_error' = (res # "ok")

\* Transcriber.thread, wherever it is
ThreadPc == IF lcur THEN lpc ELSE IF other.cur THEN other.pc ELSE "none"

\* threading.Thread(target=self._run_loop).start(): the new thread takes the
\* place of a thread that has ended; the model follows two loop threads
CanSpawn == ~Alive(lpc) \/ ~Alive(other.pc)

SpawnLoop ==
  IF ~Alive(lpc)
  THEN /\ lpc' = "entry"
       /\ data' = NoFrame
       /\ prompt' = <<>>
       /\ fast_text' = <<>>
       /\ tick_log' = <<>>
       /\ lcur' = TRUE
       /\ lstopped' = FALSE
       /\ other' = (IF Alive(other.pc) THEN [other EXCEPT !.cur = FALSE]
                    ELSE NoOther)
  ELSE /\ other' = [NoOther EXCEPT !.pc = "entry", !.cur = TRUE]
       /\ lcur' = FALSE
       /\ UNCHANGED << lpc, data, prompt, fast_text, tick_log, lstopped >>

\* Transcriber.start
TranscriberStart ==
  /\ stop_event' = FALSE
  /\ SpawnLoop

\* CaptionWindow.start_processing: transcriber.start(), audio_recorder.start()
StartProcessing(res) ==
  /\ start_pending
  /\ mpc = "idle"
  /\ ~foreign
  /\ CanSpawn
  /\ start_pending' = FALSE
  /\ TranscriberStart
  /\ RecorderStart(rec_running, res)
  /\ UNCHANGED << audio_queue, next_id, cb_pc, mpc, config_window, foreign,
                  session_base, gateVars, local_audio_buffer,
                  last_committed_text, elapsed, since_fast,
                  appended, committed_samples, transcript_log, segments,
                  uiVars >>

\* -------------------------------------------------- Transcriber._run_loop
Ev(kind, text, final) == [ev |-> kind, text |-> text, final |-> final]

\* the values now - last_transcribe_time may have after a sleep
AfterSleep(e) == e..ElapsedCap

\* the values it may have once last_transcribe_time = now has run and the
\* tick has slept: the time the engine calls and the sleep took
AfterStamp == 0..ElapsedCap

\* the time since the last fast call began, s, once the clock above has gone
\* from e to e2: the same time has passed for both, and at the cap of e2 any
\* time that takes e to the cap
SinceAfter(s, e, e2) ==
  IF e2 < ElapsedCap
  THEN { Min(s + (e2 - e), ElapsedCap) }
  ELSE { Min(s + d, ElapsedCap) : d \in (ElapsedCap - e)..ElapsedCap }

\* status_callback("Ready to transcribe") and the set-up before the loop
LoopEntry ==
  /\ lpc = "entry"
  /\ lpc' = "top"
  /\ tick_log' = Append(tick_log, Ev("status", <<>>, FALSE))
  /\ UNCHANGED << lifeVars, recorderVars, gateVars, stop_event,
                  local_audio_buffer, last_committed_text, elapsed, since_fast, data,
                  prompt, fast_text, appended, committed_samples,
                  transcript_log, segments, uiVars >>

\* a while test that looks at the pause request before the stop request
LoopTop_PauseFirst ==
  /\ lpc = "top"
  /\ lpc' = IF pause_event THEN "set_paused"
            ELSE IF stop_event THEN "done" ELSE "check_pause"
  /\ tick_log' = <<>>
  /\ UNCHANGED << lifeVars, recorderVars, gateVars, stop_event, local_audio_buffer,
                  last_committed_text, elapsed, since_fast, data, prompt, fast_text,
                  appended, committed_samples, transcript_log, segments,
                  uiVars >>

\* while not self.stop_event.is_set():
LoopTop ==
  /\ lpc = "top"
  /\ lpc' = IF stop_event THEN "done" ELSE "check_pause"
  /\ tick_log' = <<>>
  /\ UNCHANGED << lifeVars, recorderVars, gateVars, stop_event, local_audio_buffer,
                  last_committed_text, elapsed, since_fast, data, prompt, fast_text,
                  appended, committed_samples, transcript_log, segments,
                  uiVars >>

\* a loop that does not look at the pause request
LoopCheckPause_Ignore ==
  /\ lpc = "check_pause"
  /\ lpc' = "clear_paused"
  /\ UNCHANGED << lifeVars, recorderVars, gateVars, stop_event, local_audio_buffer,
                  last_committed_text, elapsed, since_fast, data, prompt,
                  fast_text, tick_log, appended, committed_samples,
                  transcript_log, segments, uiVars >>

\* if self.pause_event.is_set():
LoopCheckPause ==
  /\ lpc = "check_pause"
  /\ lpc' = IF pause_event THEN "set_paused" ELSE "clear_paused"
  /\ UNCHANGED << lifeVars, recorderVars, gateVars, stop_event, local_audio_buffer,
                  last_committed_text, elapsed, since_fast, data, prompt, fast_text,
                  tick_log, appended, committed_samples, transcript_log,
                  segments, uiVars >>

\* self.transcription_paused.set(); sd.sleep(100); continue
LoopSetPaused ==
  /\ lpc = "set_paused"
  /\ transcription_paused' = TRUE
  /\ lpc' = "top"
  /\ elapsed' \in AfterSleep(elapsed)
  /\ since_fast' \in SinceAfter(since_fast, elapsed, elapsed')
  /\ UNCHANGED << lifeVars, recorderVars, pause_event, stop_event, local_audio_buffer,
                  last_committed_text, data, prompt, fast_text, tick_log,
                  appended, committed_samples, transcript_log, segments,
                  uiVars >>

\* a loop that leaves the acknowledged flag as it is when no pause is asked
LoopClearPaused_Keep ==
  /\ lpc = "clear_paused"
  /\ lpc' = "drain"
  /\ UNCHANGED << lifeVars, recorderVars, gateVars, stop_event, local_audio_buffer,
                  last_committed_text, elapsed, since_fast, data, prompt,
                  fast_text, tick_log, appended, committed_samples,
                  transcript_log, segments, uiVars >>

\* else: self.transcription_paused.clear()
LoopClearPaused ==
  /\ lpc = "clear_paused"
  /\ transcription_paused' = FALSE
  /\ lpc' = "drain"
  /\ UNCHANGED << lifeVars, recorderVars, pause_event, stop_event, local_audio_buffer,
                  last_committed_text, elapsed, since_fast, data, prompt, fast_text,
                  tick_log, appended, committed_samples, transcript_log,
                  segments, uiVars >>

\* a drain that takes the newest queued frame first
LoopDrainGet_Lifo ==
  /\ lpc = "drain"
  /\ audio_queue # <<>>
  /\ data' = audio_queue[Len(audio_queue)]
  /\ audio_queue' = SubSeq(audio_queue, 1, Len(audio_queue) - 1)
  /\ lpc' = "concat"
  /\ UNCHANGED << lifeVars, next_id, rec_running, gateVars, stop_event,
                  local_audio_buffer, last_committed_text, elapsed, since_fast, prompt,
                  fast_text, tick_log, appended, committed_samples,
                  transcript_log, segments, uiVars >>

\* while not self.audio_queue.empty(): data = self.audio_queue.get_nowait()
LoopDrainGet ==
  /\ lpc = "drain"
  /\ audio_queue # <<>>
  /\ data' = Head(audio_queue)
  /\ audio_queue' = Tail(audio_queue)
  /\ lpc' = "concat"
  /\ UNCHANGED << lifeVars, next_id, rec_running, gateVars, stop_event,
                  local_audio_buffer, last_committed_text, elapsed, since_fast, prompt,
                  fast_text, tick_log, appended, committed_samples,
                  transcript_log, segments, uiVars >>

\* a drain that keeps the drained frame in place of the buffer
Concatenate_Replace(buf, frame) == << frame >>

\* a drain that puts the drained frame in front of the buffer
Concatenate_Prepend(buf, frame) == << frame >> \o buf

\* np.concatenate([self.local_audio_buffer, data])
Concatenate(buf, frame) == Append(buf, frame)

\* self.local_audio_buffer = np.concatenate([self.local_audio_buffer, data])
LoopDrainConcat ==
  /\ lpc = "concat"
  /\ local_audio_buffer' = Concatenate(local_audio_buffer, data)
  /\ appended' = Append(appended, data.id)
  /\ data' = NoFrame
  /\ lpc' = "drain"
  /\ UNCHANGED << lifeVars, recorderVars, gateVars, stop_event, last_committed_text,
                  elapsed, since_fast, prompt, fast_text, tick_log, committed_samples,
                  transcript_log, segments, uiVars >>

\* the drain loop finds the queue empty
LoopDrainEnd ==
  /\ lpc = "drain"
  /\ audio_queue = <<>>
  /\ lpc' = "eval"
  /\ UNCHANGED << lifeVars, recorderVars, gateVars, stop_event, local_audio_buffer,
                  last_committed_text, elapsed, since_fast, data, prompt, fast_text,
                  tick_log, appended, committed_samples, transcript_log,
                  segments, uiVars >>

\* a test that leaves out the minimum duration
TickEvaluated_NoMin(buf, e) == e > update_interval

\* current_duration >= self.min_duration and
\* (now - self.last_transcribe_time > self.update_interval)
TickEvaluated(buf, e) == DurAtLeastMin(buf) /\ e > update_interval

\* a silence test with the comparison turned round
SilenceSkip_Inverted(buf) == ~BufferSilent(buf) /\ DurBelowMax(buf)

\* rms < self.silence_threshold and current_duration < self.max_duration
SilenceSkip(buf) == BufferSilent(buf) /\ DurBelowMax(buf)

\* 2. Transcribe?  up to the call of the fast engine
LoopEval ==
  /\ lpc = "eval"
  /\ IF TickEvaluated(local_audio_buffer, elapsed)
     THEN IF SilenceSkip(local_audio_buffer)
          THEN \* self.update_callback("", False); sd.sleep(50); continue
               /\ tick_log' = Append(tick_log, Ev("emit", <<>>, FALSE))
               /\ elapsed' \in AfterSleep(elapsed)
               /\ since_fast' \in SinceAfter(since_fast, elapsed, elapsed')
               /\ lpc' = "top"
               /\ UNCHANGED prompt
          ELSE \* self._process_audio_buffer(current_duration)
               /\ prompt' = BuildPrompt(last_committed_text)
               /\ tick_log' = Append(tick_log, Ev("fast", prompt', FALSE))
               /\ lpc' = "fast_call"
               /\ since_fast' = 0
               /\ UNCHANGED elapsed
     ELSE \* sd.sleep(50)
          /\ elapsed' \in AfterSleep(elapsed)
          /\ since_fast' \in SinceAfter(since_fast, elapsed, elapsed')
          /\ lpc' = "top"
          /\ UNCHANGED << prompt, tick_log >>
  /\ UNCHANGED << lifeVars, recorderVars, gateVars, stop_event, local_audio_buffer,
                  last_committed_text, data, fast_text, appended,
                  committed_samples, transcript_log, segments, uiVars >>

\* the fast transcribe call returns raw: strip, echo filter, commit logic
LoopFastReturn(raw) ==
  /\ lpc = "fast_call"
  /\ LET text == EchoFilter(raw, prompt)
         heard == Append(tick_log, Ev("heard", raw, FALSE))
     IN
       IF text # <<>>
       THEN IF ShouldCommit(text, local_audio_buffer)
            THEN \* self._commit_text(prompt): call of the quality engine
                 /\ fast_text' = text
                 /\ tick_log' = Append(heard, Ev("quality", prompt, FALSE))
                 /\ lpc' = "quality_call"
                 /\ UNCHANGED << elapsed, since_fast, prompt >>
            ELSE \* self.update_callback(text, False)
                 /\ tick_log' = Append(heard, Ev("emit", text, FALSE))
                 /\ elapsed' \in AfterStamp
                 /\ since_fast' \in SinceAfter(since_fast, 0, elapsed')
                 /\ lpc' = "top"
                 /\ prompt' = <<>>
                 /\ UNCHANGED fast_text
       ELSE /\ tick_log' = heard
            /\ elapsed' \in AfterStamp
            /\ since_fast' \in SinceAfter(since_fast, 0, elapsed')
            /\ lpc' = "top"
            /\ prompt' = <<>>
            /\ UNCHANGED fast_text
  /\ UNCHANGED << lifeVars, recorderVars, gateVars, stop_event, local_audio_buffer,
                  last_committed_text, data, appended,
                  committed_samples, transcript_log, segments, uiVars >>

\* final_text = text_quality
FinalText(quality, fast) == quality

\* the quality transcribe call returns raw: the rest of _commit_text
LoopQualityReturn(raw) ==
  /\ lpc = "quality_call"
  /\ LET final_text == FinalText(Strip(raw), fast_text) IN
       /\ transcript_log' = transcript_log + 1
       /\ tick_log' = tick_log \o << Ev("log", final_text, TRUE),
                                     Ev("emit", final_text, TRUE) >>
       /\ last_committed_text' = AppendContext(last_committed_text, final_text)
       /\ segments' = IF final_text # <<>> THEN segments + 1 ELSE segments
  /\ committed_samples' = committed_samples + NumSamples(local_audio_buffer)
  /\ local_audio_buffer' = <<>>
  /\ elapsed' \in AfterStamp
  /\ since_fast' \in SinceAfter(since_fast, 0, elapsed')
  /\ lpc' = "top"
  /\ prompt' = <<>>
  /\ fast_text' = <<>>
  /\ UNCHANGED << lifeVars, recorderVars, gateVars, stop_event, data, appended, uiVars >>

\* an engine call whose exception ends the loop thread
LoopEngineRaise_Dies ==
  /\ lpc \in {"fast_call", "quality_call"}
  /\ tick_log' = Append(tick_log, Ev("error", <<>>, FALSE))
  /\ elapsed' \in AfterSleep(elapsed)
  /\ since_fast' \in SinceAfter(since_fast, elapsed, elapsed')
  /\ lpc' = "done"
  /\ prompt' = <<>>
  /\ fast_text' = <<>>
  /\ UNCHANGED << lifeVars, recorderVars, gateVars, stop_event, local_audio_buffer,
                  last_committed_text, data, appended, committed_samples,
                  transcript_log, segments, uiVars >>

\* an engine call raises: except Exception: print(...); sd.sleep(50)
LoopEngineRaise ==
  /\ lpc \in {"fast_call", "quality_call"}
  /\ tick_log' = Append(tick_log, Ev("error", <<>>, FALSE))
  /\ elapsed' \in AfterSleep(elapsed)
  /\ since_fast' \in SinceAfter(since_fast, elapsed, elapsed')
  /\ lpc' = "top"
  /\ prompt' = <<>>
  /\ fast_text' = <<>>
  /\ UNCHANGED << lifeVars, recorderVars, gateVars, stop_event, local_audio_buffer,
                  last_committed_text, data, appended, committed_samples,
                  transcript_log, segments, uiVars >>

\* the calls of _commit_text after the quality call that may raise
CommitSteps == {"log", "emit"}

\* the quality call returns raw and log_to_file(final_text) raises (nothing
\* is written), or the entry is written and update_callback(final_text, True)
\* raises: except Exception: print(...); sd.sleep(50)
LoopCommitRaise(raw, at) ==
  /\ lpc = "quality_call"
  /\ transcript_log < MaxLogs
  /\ LET final_text == FinalText(Strip(raw), fast_text) IN
       IF at = "log"
       THEN /\ tick_log' = Append(tick_log, Ev("raise", final_text, FALSE))
            /\ UNCHANGED transcript_log
       ELSE /\ tick_log' = tick_log \o << Ev("log", final_text, TRUE),
                                          Ev("raise", final_text, FALSE) >>
            /\ transcript_log' = transcript_log + 1
  /\ elapsed' \in AfterSleep(elapsed)
  /\ since_fast' \in SinceAfter(since_fast, elapsed, elapsed')
  /\ lpc' = "top"
  /\ prompt' = <<>>
  /\ fast_text' = <<>>
  /\ UNCHANGED << lifeVars, recorderVars, gateVars, stop_event, local_audio_buffer,
                  last_committed_text, data, appended, committed_samples,
                  segments, uiVars >>

\* one step of the loop thread; the engines answer with texts of fast, quality
LoopStep(fast, quality) ==
  \/ LoopEntry
  \/ LoopTop
  \/ LoopCheckPause
  \/ LoopSetPaused
  \/ LoopClearPaused
  \/ LoopDrainGet
  \/ LoopDrainConcat
  \/ LoopDrainEnd
  \/ LoopEval
  \/ \E raw \in fast : LoopFastReturn(raw)
  \/ \E raw \in quality : LoopQualityReturn(raw)
  \/ LoopEngineRaise

\* ------------------------------------------------------------ CaptionWindow
Segs == 1..MaxFrames

SetTask(t, r) == [task EXCEPT ![t] = r]

\* the preload thread started by __init__ ends, with or without a model
PreloadDone(ok) ==
  /\ preload_pending
  /\ preload_pending' = FALSE
  /\ translation_model' = (translation_model \/ ok)
  /\ UNCHANGED << lifeVars, recorderVars, gateVars, loopVars, active_translations,
                  cleanup_pending, task, text_area,
                  last_on_text >>

\* on_text_click on the displayed segment seg; the thread it starts is the
\* first free one of slots
OnTextClick(seg, slots) ==
  /\ mpc = "idle"
  /\ seg \in 1..segments
  /\ IF seg \in active_translations
     THEN UNCHANGED << active_translations, task >>
     ELSE \E t \in slots :
            /\ task[t].pc = "free"
            /\ \A u \in slots : u < t => task[u].pc # "free"
            /\ active_translations' = active_translations \cup {seg}
            /\ task' = SetTask(t, [FreeTask EXCEPT !.pc = "pause", !.seg = seg])
  /\ UNCHANGED << lifeVars, recorderVars, gateVars, loopVars, cleanup_pending,
                  translation_model, preload_pending, text_area,
                  last_on_text >>

\* cleanup_lock(seg_id), run by the main loop
CleanupLock(seg) ==
  /\ mpc = "idle"
  /\ seg \in cleanup_pending
  /\ cleanup_pending' = cleanup_pending \ {seg}
  /\ active_translations' = active_translations \ {seg}
  /\ UNCHANGED << lifeVars, recorderVars, gateVars, loopVars, translation_model,
                  preload_pending, task, text_area,
                  last_on_text >>

\* Transcriber.pause / Transcriber.resume, of self.transcriber
Pause == ~foreign /\ pause_event' = TRUE
Resume == ~foreign /\ pause_event' = FALSE

\* self.transcriber.pause(); start_wait = time.time()
TaskPause(t) ==
  /\ task[t].pc = "pause"
  /\ Pause
  /\ task' = SetTask(t, [task[t] EXCEPT !.pc = "wait", !.waited = 0])
  /\ UNCHANGED << lifeVars, recorderVars, transcription_paused, loopVars,
                  active_translations, cleanup_pending, translation_model,
                  preload_pending, text_area,
                  last_on_text >>

\* a wait loop without the 3 s limit
KeepWaiting_NoTimeout(paused, waited) == ~paused

\* not self.transcriber.is_paused() and (time.time() - start_wait < 3.0)
KeepWaiting(paused, waited) == ~paused /\ waited < WAIT_TIMEOUT

\* one pass of the wait loop: time.sleep(0.1)
TaskWaitPoll(t) ==
  /\ task[t].pc = "wait"
  /\ ~foreign
  /\ KeepWaiting(transcription_paused, task[t].waited)
  /\ \E w \in {task[t].waited, Min(task[t].waited + 1, WAIT_TIMEOUT)} :
       task' = SetTask(t, [task[t] EXCEPT !.waited = w])
  /\ UNCHANGED << lifeVars, recorderVars, gateVars, loopVars, active_translations,
                  cleanup_pending, translation_model, preload_pending, text_area,
                  last_on_text >>

\* the wait loop ends: paused was observed, or the 3 s are over
TaskWaitExit(t) ==
  /\ task[t].pc = "wait"
  /\ ~foreign
  /\ ~KeepWaiting(transcription_paused, task[t].waited)
  /\ task' = SetTask(t, [task[t] EXCEPT !.pc = "try",
                                        !.acked = transcription_paused])
  /\ UNCHANGED << lifeVars, recorderVars, gateVars, loopVars, active_translations,
                  cleanup_pending, translation_model, preload_pending, text_area,
                  last_on_text >>

\* try: lazy load when there is no model, up to the call of generate();
\* without a model the tokenizer is None and apply_chat_template raises
TaskTry(t, ok) ==
  /\ task[t].pc = "try"
  /\ translation_model' = (translation_model \/ ok)
  /\ IF translation_model'
     THEN task' = SetTask(t, [task[t] EXCEPT !.pc = "generate"])
     ELSE task' = SetTask(t, [task[t] EXCEPT !.pc = "finally",
                                             !.raised = TRUE,
                                             !.status = TRUE])
  /\ UNCHANGED << lifeVars, recorderVars, gateVars, loopVars, active_translations,
                  cleanup_pending, preload_pending, text_area,
                  last_on_text >>

\* a translation whose exception ends the thread: no status, no finally
TaskGenerateEnd_NoFinally(t, ok) ==
  /\ task[t].pc = "generate"
  /\ IF ok
     THEN task' = SetTask(t, [task[t] EXCEPT !.pc = "finally"])
     ELSE task' = SetTask(t, FreeTask)
  /\ UNCHANGED << lifeVars, recorderVars, gateVars, loopVars, active_translations,
                  cleanup_pending, translation_model, preload_pending, text_area,
                  last_on_text >>

\* generate() returns (schedule_insert_translation) or raises
\* (except Exception: schedule_set_status)
TaskGenerateEnd(t, ok) ==
  /\ task[t].pc = "generate"
  /\ IF ok
     THEN task' = SetTask(t, [task[t] EXCEPT !.pc = "finally"])
     ELSE task' = SetTask(t, [task[t] EXCEPT !.pc = "finally",
                                             !.raised = TRUE,
                                             !.status = TRUE])
  /\ UNCHANGED << lifeVars, recorderVars, gateVars, loopVars, active_translations,
                  cleanup_pending, translation_model, preload_pending, text_area,
                  last_on_text >>

\* finally: self.schedule_cleanup_lock(seg_id)
TaskFinally(t) ==
  /\ task[t].pc = "finally"
  /\ cleanup_pending' = cleanup_pending \cup {task[t].seg}
  /\ task' = SetTask(t, [task[t] EXCEPT !.pc = "resume"])
  /\ UNCHANGED << lifeVars, recorderVars, gateVars, loopVars, active_translations,
                  translation_model, preload_pending, text_area,
                  last_on_text >>

\* finally: self.transcriber.resume(); the thread ends
TaskResume(t) ==
  /\ task[t].pc = "resume"
  /\ Resume
  /\ task' = SetTask(t, FreeTask)
  /\ UNCHANGED << lifeVars, recorderVars, transcription_paused, loopVars,
                  active_translations, cleanup_pending, translation_model,
                  preload_pending, text_area,
                  last_on_text >>

TaskStep(t) ==
  \/ TaskPause(t)
  \/ TaskWaitPoll(t)
  \/ TaskWaitExit(t)
  \/ \E ok \in BOOLEAN : TaskTry(t, ok)
  \/ \E ok \in BOOLEAN : TaskGenerateEnd(t, ok)
  \/ TaskFinally(t)
  \/ TaskResume(t)

\* ------------------------------------------- settings, stop and start again
\* the loop thread and the Transcriber the variables above describe
ActiveThread ==
  [pc |-> lpc, data |-> data, prompt |-> prompt, fast_text |-> fast_text,
   tick_log |-> tick_log, cur |-> lcur, stopped |-> lstopped]

ActiveObj ==
  [stop_event |-> stop_event, pause_event |-> pause_event,
   transcription_paused |-> transcription_paused,
   local_audio_buffer |-> local_audio_buffer,
   last_committed_text |-> last_committed_text, elapsed |-> elapsed,
   since_fast |-> since_fast,
   appended |-> appended, committed_samples |-> committed_samples]

Parked(thr, own, obj) ==
  [pc |-> thr.pc, data |-> thr.data, prompt |-> thr.prompt,
   fast_text |-> thr.fast_text, tick_log |-> thr.tick_log, cur |-> thr.cur,
   stopped |-> thr.stopped, own |-> own, obj |-> obj]

\* the scheduler runs the other loop thread; a thread of a replaced
\* Transcriber brings the fields of its own object with it
Switch ==
  /\ Alive(other.pc) \/ foreign
  /\ lpc' = other.pc
  /\ data' = other.data
  /\ prompt' = other.prompt
  /\ fast_text' = other.fast_text
  /\ tick_log' = other.tick_log
  /\ lcur' = other.cur
  /\ lstopped' = other.stopped
  /\ IF other.own
     THEN /\ stop_event' = other.obj.stop_event
          /\ pause_event' = other.obj.pause_event
          /\ transcription_paused' = other.obj.transcription_paused
          /\ local_audio_buffer' = other.obj.local_audio_buffer
          /\ last_committed_text' = other.obj.last_committed_text
          /\ elapsed' = other.obj.elapsed
          /\ since_fast' = other.obj.since_fast
          /\ appended' = other.obj.appended
          /\ committed_samples' = other.obj.committed_samples
          /\ foreign' = ~foreign
          /\ other' = IF foreign /\ ~Alive(lpc)
                      THEN NoOther
                      ELSE Parked(ActiveThread, TRUE, ActiveObj)
     ELSE /\ UNCHANGED << stop_event, gateVars, local_audio_buffer,
                          last_committed_text, elapsed, since_fast, appended,
                          committed_samples, foreign >>
          /\ other' = IF Alive(lpc) THEN Parked(ActiveThread, FALSE, NoObj)
                      ELSE NoOther
  /\ UNCHANGED << recorderVars, stream, cb_pc, open_streams, start_error, mpc,
                  config_window, start_pending, session_base, transcript_log, segments,
                  uiVars >>

\* open_settings with no settings window: transcriber.stop() up to the join
OpenSettings ==
  /\ mpc = "idle"
  /\ ~config_window
  /\ ~foreign
  /\ stop_event' = TRUE
  /\ mpc' = "os_join"
  /\ UNCHANGED << recorderVars, gateVars, stream, cb_pc, open_streams,
                  start_error, config_window, start_pending, session_base, lcur, lstopped,
                  other, foreign, local_audio_buffer, last_committed_text,
                  elapsed, since_fast, lpc, data, prompt, fast_text, tick_log, appended,
                  committed_samples, transcript_log, segments, uiVars >>

\* self.thread.join(timeout=1.0) returns: the thread has ended, or it is
\* inside an engine call for more than a second (anywhere else the loop is
\* back at its while test within a sleep of 100 ms)
JoinReturns == ~Alive(ThreadPc) \/ ThreadPc \in {"fast_call", "quality_call"}

\* transcriber.stop() returns; audio_recorder.stop(): self.running = False
StopJoined ==
  /\ mpc \in {"os_join", "rp_join"}
  /\ ~foreign
  /\ JoinReturns
  /\ lstopped' = (lstopped \/ (lcur /\ Alive(lpc)))
  /\ other' = IF other.cur /\ Alive(other.pc)
              THEN [other EXCEPT !.stopped = TRUE] ELSE other
  /\ rec_running' = FALSE
  /\ mpc' = IF mpc = "os_join" THEN "os_stream" ELSE "rp_stream"
  /\ UNCHANGED << audio_queue, next_id, gateVars, stream, cb_pc, open_streams,
                  start_error, config_window, start_pending, session_base, lcur, foreign,
                  stop_event, local_audio_buffer, last_committed_text,
                  elapsed, since_fast, lpc, data, prompt, fast_text, tick_log, appended,
                  committed_samples, transcript_log, segments, uiVars >>

\* a stream.stop() that returns while the callback is still running
StreamQuiet_NoWait(st, cb) == TRUE

\* stream.stop() returns once no callback of the stream is running
StreamQuiet(st, cb) == st = "open" => cb = "idle"

\* if self.stream: stop, close, self.stream = None; open_settings then opens
\* the settings window
StreamStopped ==
  /\ mpc \in {"os_stream", "rp_stream"}
  /\ ~foreign
  /\ StreamQuiet(stream, cb_pc)
  /\ stream' = "none"
  /\ open_streams' = IF stream = "none" THEN open_streams ELSE open_streams - 1
  /\ config_window' = (mpc = "os_stream")
  /\ mpc' = IF mpc = "os_stream" THEN "idle" ELSE "rp_new"
  /\ UNCHANGED << recorderVars, gateVars, cb_pc, start_error, start_pending, session_base,
                  lcur, lstopped, other, foreign, stop_event,
                  local_audio_buffer, last_committed_text, elapsed, since_fast, lpc, data,
                  prompt, fast_text, tick_log, appended, committed_samples,
                  transcript_log, segments, uiVars >>

\* on_config_close: the settings window is closed without saving
OnConfigClose(res) ==
  /\ mpc = "idle"
  /\ config_window
  /\ ~foreign
  /\ CanSpawn
  /\ config_window' = FALSE
  /\ TranscriberStart
  /\ RecorderStart(rec_running, res)
  /\ UNCHANGED << audio_queue, next_id, cb_pc, mpc, start_pending, session_base, foreign,
                  gateVars, local_audio_buffer, last_committed_text, elapsed, since_fast,
                  appended, committed_samples, transcript_log, segments,
                  uiVars >>

\* restart_processing (ConfigWindow.start_app): transcriber.stop() up to the
\* join
RestartProcessing ==
  /\ mpc = "idle"
  /\ config_window
  /\ ~foreign
  /\ config_window' = FALSE
  /\ stop_event' = TRUE
  /\ mpc' = "rp_join"
  /\ UNCHANGED << recorderVars, gateVars, stream, cb_pc, open_streams,
                  start_error, start_pending, session_base, lcur, lstopped, other, foreign,
                  local_audio_buffer, last_committed_text, elapsed, since_fast, lpc, data,
                  prompt, fast_text, tick_log, appended, committed_samples,
                  transcript_log, segments, uiVars >>

\* a restart whose new Transcriber takes over the trailing context of the old
RestartNew_KeepContext(res) ==
  /\ mpc = "rp_new"
  /\ ~foreign
  /\ ~(Alive(lpc) /\ Alive(other.pc))
  /\ other' = IF Alive(lpc)
              THEN Parked([ActiveThread EXCEPT !.cur = FALSE], TRUE, ActiveObj)
              ELSE IF ~Alive(other.pc) THEN NoOther
              ELSE IF other.own THEN other
              ELSE [other EXCEPT !.cur = FALSE, !.own = TRUE, !.obj = ActiveObj]
  /\ lpc' = "entry"
  /\ data' = NoFrame
  /\ prompt' = <<>>
  /\ fast_text' = <<>>
  /\ tick_log' = <<>>
  /\ lcur' = TRUE
  /\ lstopped' = FALSE
  /\ stop_event' = FALSE
  /\ pause_event' = FALSE
  /\ transcription_paused' = FALSE
  /\ local_audio_buffer' = <<>>
  /\ last_committed_text' = last_committed_text
  /\ elapsed' = ElapsedCap
  /\ since_fast' = ElapsedCap
  /\ appended' = <<>>
  /\ committed_samples' = 0
  /\ RecorderStart(rec_running, res)
  /\ session_base' = next_id
  /\ translation_model' = FALSE
  /\ preload_pending' = TRUE
  /\ mpc' = "idle"
  /\ UNCHANGED << audio_queue, next_id, cb_pc, config_window, start_pending,
                  foreign, transcript_log, segments, active_translations,
                  cleanup_pending, task, text_area,
                  last_on_text >>

\* restart_processing from "Update State" on: a new preload thread, a new
\* AudioRecorder on the same queue, a new Transcriber, both started.  A loop
\* thread of the old Transcriber that is still alive keeps the old object.
RestartNew(res) ==
  /\ mpc = "rp_new"
  /\ ~foreign
  /\ ~(Alive(lpc) /\ Alive(other.pc))
  /\ other' = IF Alive(lpc)
              THEN Parked([ActiveThread EXCEPT !.cur = FALSE], TRUE, ActiveObj)
              ELSE IF ~Alive(other.pc) THEN NoOther
              ELSE IF other.own THEN other
              ELSE [other EXCEPT !.cur = FALSE, !.own = TRUE, !.obj = ActiveObj]
  /\ lpc' = "entry"
  /\ data' = NoFrame
  /\ prompt' = <<>>
  /\ fast_text' = <<>>
  /\ tick_log' = <<>>
  /\ lcur' = TRUE
  /\ lstopped' = FALSE
  /\ stop_event' = FALSE
  /\ pause_event' = FALSE
  /\ transcription_paused' = FALSE
  /\ local_audio_buffer' = <<>>
  /\ last_committed_text' = <<>>
  /\ elapsed' = ElapsedCap
  /\ since_fast' = ElapsedCap
  /\ appended' = <<>>
  /\ committed_samples' = 0
  /\ RecorderStart(rec_running, res)
  /\ session_base' = next_id
  /\ translation_model' = FALSE
  /\ preload_pending' = TRUE
  /\ mpc' = "idle"
  /\ UNCHANGED << audio_queue, next_id, cb_pc, config_window, start_pending,
                  foreign, transcript_log, segments, active_translations,
                  cleanup_pending, task, text_area,
                  last_on_text >>

\* the main thread's handlers for the settings window
Settings ==
  \/ OpenSettings
  \/ StopJoined
  \/ StreamStopped
  \/ \E res \in StartResults : OnConfigClose(res)
  \/ RestartProcessing
  \/ \E res \in StartResults : RestartNew(res)

\* --------------------------------------------------------------- the system
\* the main thread and the translation threads of slots
Window(slots) ==
  \/ \E seg \in Segs : OnTextClick(seg, slots)
  \/ \E seg \in Segs : CleanupLock(seg)
  \/ \E t \in slots : TaskStep(t)

\* One session from construction on, with one translation thread at a time.
Next ==
  \/ \E res \in StartResults : StartProcessing(res)
  \/ CallbackEnter
  \/ \E amp \in Amps : AudioCallback(amp)
  \/ LoopStep(FastTexts, QualityTexts)
  \/ \E ok \in BOOLEAN : PreloadDone(ok)
  \/ Window({1})

Spec == Init /\ [][Next]_vars

\* A running session in which two sentences have been committed and are on
\* display and the loop thread is started again: of a third sentence the
\* second of speech is in the buffer and the second of silence in the queue,
\* and the hardware delivers nothing more; the preload of the translation
\* model has failed; every translation thread of Tasks.  Frame ids and sample
\* counts start again with these frames.

TwoSentences == AppendContext(AppendContext(<<>>, Sentence), Sentence)

SpokenSentence ==
  << [id |-> 1, n |-> FrameSamples, amp |-> LOUD],
     [id |-> 2, n |-> FrameSamples, amp |-> 0] >>

InitGate ==
  /\ audio_queue = SubSeq(SpokenSentence, 2, 2)
  /\ next_id = 2
  /\ rec_running = TRUE
  /\ stop_event = FALSE
  /\ pause_event = FALSE
  /\ transcription_paused = FALSE
  /\ local_audio_buffer = SubSeq(SpokenSentence, 1, 1)
  /\ last_committed_text = TwoSentences
  /\ elapsed = ElapsedCap
  /\ since_fast = ElapsedCap
  /\ lpc = "entry"
  /\ data = NoFrame
  /\ prompt = <<>>
  /\ fast_text = <<>>
  /\ tick_log = <<>>
  /\ appended = <<1>>
  /\ committed_samples = 0
  /\ transcript_log = 2
  /\ segments = 2
  /\ active_translations = {}
  /\ cleanup_pending = {}
  /\ translation_model = FALSE
  /\ preload_pending = FALSE
  /\ task = [t \in Tasks |-> FreeTask]
  /\ text_area = DisplayOf(segments)
  /\ last_on_text = NoEmission
  /\ RunningLife

NextGate ==
  \/ LoopStep({Fragment, Sentence}, {Sentence})
  \/ Window(Tasks)

SpecGate == InitGate /\ [][NextGate]_vars

\* The loop thread of a transcriber that is started again (Transcriber.start
\* after on_config_close) on the audio and the context it already holds: the
\* tick on prepared buffers, alone.  Frame ids and sample counts start with
\* the buffered frames.
MkFrames(amps, first) ==
  [i \in 1..Len(amps) |-> [id |-> first + i - 1, n |-> FrameSamples, amp |-> amps[i]]]

Rep(k, a) == [i \in 1..k |-> a]

TickAmps ==
  { <<>>, <<LOUD>>, <<0>>, <<LOUD, 0>>, <<0, LOUD>>,
    Rep(LongFrames - 1, LOUD), Rep(LongFrames - 1, 0),
    Rep(LongFrames, LOUD), Rep(LongFrames, 0),
    Rep(LongFrames - 1, LOUD) \o <<0>> }

TickContexts ==
  { <<>>, AppendContext(<<>>, Sentence), Rep(CONTEXT_CHARS - 2, "a") }

\* half a second of speech: a frame shorter than min_duration
ShortFrame == [id |-> 1, n |-> FrameSamples \div 2, amp |-> LOUD]

InitTick ==
  /\ \/ \E amps \in TickAmps, more \in {<<>>, <<LOUD>>} :
          /\ local_audio_buffer = MkFrames(amps, 1)
          /\ audio_queue = MkFrames(more, Len(amps) + 1)
          /\ next_id = Len(amps) + Len(more)
          /\ appended = [i \in 1..Len(amps) |-> i]
     \/ \E queued \in BOOLEAN :
          /\ local_audio_buffer = (IF queued THEN <<>> ELSE << ShortFrame >>)
          /\ audio_queue = (IF queued THEN << ShortFrame >> ELSE <<>>)
          /\ next_id = 1
          /\ appended = (IF queued THEN <<>> ELSE <<1>>)
  /\ last_committed_text \in TickContexts
  /\ transcript_log = (IF last_committed_text = <<>> THEN 0 ELSE 1)
  /\ segments = transcript_log
  /\ elapsed \in 0..ElapsedCap
  /\ since_fast = elapsed
  /\ pause_event \in BOOLEAN
  /\ transcription_paused = FALSE
  /\ rec_running = TRUE
  /\ stop_event = FALSE
  /\ lpc = "entry"
  /\ data = NoFrame
  /\ prompt = <<>>
  /\ fast_text = <<>>
  /\ tick_log = <<>>
  /\ committed_samples = 0
  /\ InitWindow
  /\ RunningLife

NextTick == LoopStep(FastTexts, QualityTexts)

SpecTick == InitTick /\ [][NextTick]_vars

\* The same loop thread when the transcript log or the window may fail: the
\* calls of a commit after the quality call may raise.
NextCommit ==
  \/ NextTick
  \/ \E raw \in QualityTexts, at \in CommitSteps : LoopCommitRaise(raw, at)

SpecCommit == InitTick /\ [][NextCommit]_vars

\* A session in which the spoken sentence has been committed and clicked,
\* at the moment the translation thread has called pause(); the loop thread
\* has just passed its while test.
InitPaused ==
  /\ audio_queue = <<>>
  /\ next_id = Len(SpokenSentence)
  /\ rec_running = TRUE
  /\ stop_event = FALSE
  /\ pause_event = TRUE
  /\ transcription_paused = FALSE
  /\ local_audio_buffer = <<>>
  /\ last_committed_text = AppendContext(<<>>, Sentence)
  /\ elapsed = 0
  /\ since_fast = 0
  /\ lpc = "check_pause"
  /\ data = NoFrame
  /\ prompt = <<>>
  /\ fast_text = <<>>
  /\ tick_log = <<>>
  /\ appended = [i \in 1..Len(SpokenSentence) |-> i]
  /\ committed_samples = NumSamples(SpokenSentence)
  /\ transcript_log = 1
  /\ segments = 1
  /\ active_translations = {1}
  /\ cleanup_pending = {}
  /\ translation_model = FALSE
  /\ preload_pending = TRUE
  /\ task = [t \in Tasks |->
               IF t = 1 THEN [FreeTask EXCEPT !.pc = "wait", !.seg = 1]
               ELSE FreeTask]
  /\ text_area = DisplayOf(segments)
  /\ last_on_text = NoEmission
  /\ RunningLife

\* One window with the settings window and the loop threads it stops and
\* starts, from construction on, the hardware delivering one spoken sentence
\* (a second of speech, a second of silence), or from InitPaused on; the
\* translation and preload threads take no step meanwhile.
InitLifeSet == Init \/ InitPaused

NextLife ==
  \/ \E res \in StartResults : StartProcessing(res)
  \/ (next_id < Len(SpokenSentence) /\ CallbackEnter)
  \/ \E i \in {next_id + 1} \cap DOMAIN SpokenSentence :
       AudioCallback(SpokenSentence[i].amp)
  \/ LoopStep({Fragment, Sentence}, {Sentence})
  \/ Switch
  \/ Settings

SpecLife == InitLifeSet /\ [][NextLife]_vars

\* The translation thread is scheduled and its clock advances.
FairSpec == Spec /\ WF_vars(TaskStep(1))

\* The loop thread is scheduled and its engine calls return or raise.
FairLoop == Spec /\ WF_vars(LoopStep(FastTexts, QualityTexts))

\* ------------------------------------------------------------------ claims
InEngine == lpc \in {"fast_call", "quality_call"}

Translating(t) == task[t].pc = "generate"

\* from after pause() to before the end of resume()
HoldsGate(t) == task[t].pc \in {"wait", "try", "generate", "finally", "resume"}

EngineUsers ==
  (IF InEngine THEN 1 ELSE 0) + Cardinality({t \in Tasks : Translating(t)})

\* C1: the transcription loop and a translation task never use the inference
\* hardware at once: the number of engine calls in progress (fast or quality
\* transcribe, translation generate) never exceeds 1.
C1_GateMutualExclusion == EngineUsers <= 1

\* C2: at most one translation task is between its pause() and its resume()
\* at any time, so no resume() clears the pause request under another task.
C2_OneTaskHoldsGate == Cardinality({t \in Tasks : HoldsGate(t)}) <= 1

\* C3: a perform_translation thread that has called pause() ends only through
\* resume(), which leaves the pause request cleared, after a normal return and
\* after an error alike (failed lazy load included); a thread that caught an
\* error has emitted a status message.
C3_ResumeOnEveryExit ==
  [][\A t \in Tasks :
       /\ (HoldsGate(t) /\ task'[t].pc = "free")
            => (task[t].pc = "resume" /\ ~pause_event'
                /\ (task[t].raised => task[t].status))
       /\ (HoldsGate(t) /\ task'[t] # task[t])
            => (task'[t].pc = "free" \/ HoldsGate(t)')
       /\ task'[t].raised => task'[t].status]_vars

\* a thread whose translation raised (after emitting the status message) is
\* in its finally clause, at the resume() call, with the request still set
C3_Witness ==
  \E t \in Tasks :
    task[t].pc = "resume" /\ task[t].raised /\ task[t].status /\ pause_event

\* C4: from the moment a translation task has seen is_paused() true (no
\* timeout) until its resume(), the loop is in no engine call.
C4_AckedExcludesLoop ==
  \A t \in Tasks :
    (task[t].acked /\ task[t].pc \in {"try", "generate", "finally", "resume"})
      => ~InEngine

\* C5: a translation task that has called pause() always leaves its wait loop,
\* acknowledged or not, and goes on to the translation attempt: it reaches the
\* generate() call, or the error path when no model could be loaded.
C5_WaitAlwaysEnds ==
  \A t \in {1} :
    (task[t].pc = "wait") ~> (task[t].pc = "generate" \/ task[t].raised)

\* the 3 s are over without an acknowledgement (the loop is inside an engine
\* call) and the task is translating
C5_Witness ==
  \E t \in {1} :
    /\ task[t].pc = "generate"
    /\ ~task[t].acked
    /\ task[t].waited >= WAIT_TIMEOUT
    /\ ~transcription_paused

HasEv(kind) == \E i \in 1..Len(tick_log) : tick_log[i].ev = kind

Emitted(text, final) ==
  \E i \in 1..Len(tick_log) : tick_log[i] = Ev("emit", text, final)

\* C6: at the end of a tick in which the fast engine was called and returned,
\* the buffer is not longer than MAX_DURATION: a buffer above the cap has been
\* committed and reset, whatever text came back.
C6_CapForcesCommit ==
  (lpc = "top" /\ HasEv("heard")) => ~DurAboveMax(local_audio_buffer)

\* C7: the step that evaluates a silent buffer of at least MIN_DURATION and
\* less than MAX_DURATION ends the tick with one emission, the empty non-final
\* preview, calls no engine, and leaves buffer, context and log unchanged.
C7_SilentTick ==
  [][( /\ lpc = "eval" /\ lpc' # lpc
       /\ TickEvaluated(local_audio_buffer, elapsed)
       /\ BufferSilent(local_audio_buffer)
       /\ DurBelowMax(local_audio_buffer) )
     => ( /\ lpc' = "top"
          /\ tick_log' = << Ev("emit", <<>>, FALSE) >>
          /\ local_audio_buffer' = local_audio_buffer
          /\ last_committed_text' = last_committed_text
          /\ transcript_log' = transcript_log )]_vars

\* a silent tick has ended: two seconds of silence, the empty preview emitted
C7_Witness ==
  /\ lpc = "top"
  /\ tick_log = << Ev("emit", <<>>, FALSE) >>
  /\ local_audio_buffer # <<>>
  /\ BufferSilent(local_audio_buffer)
  /\ DurAtLeastMin(local_audio_buffer)

\* the fast engine answered with the prompt itself, up to letter case
IsEcho(raw, p) == Strip(raw) # <<>> /\ Lower(Strip(raw)) = Lower(Strip(p))

EchoTick ==
  /\ Len(tick_log) >= 2
  /\ tick_log[1].ev = "fast"
  /\ tick_log[2].ev = "heard"
  /\ IsEcho(tick_log[2].text, tick_log[1].text)

\* C8 as claimed: a tick whose fast text echoes the prompt emits the empty
\* string.
C8_EchoEmitsEmpty == (lpc = "top" /\ EchoTick) => Emitted(<<>>, FALSE)

\* C8 as amended: the step that receives an echo of the prompt ends the tick
\* with no emission at all and no quality call, and leaves buffer, context and
\* log unchanged.
C8_EchoDiscarded ==
  [][( /\ lpc = "fast_call" /\ lpc' # lpc
       /\ Len(tick_log') > Len(tick_log)
       /\ tick_log'[Len(tick_log) + 1].ev = "heard"
       /\ IsEcho(tick_log'[Len(tick_log) + 1].text, prompt) )
     => ( /\ lpc' = "top"
          /\ Len(tick_log') = Len(tick_log) + 1
          /\ local_audio_buffer' = local_audio_buffer
          /\ last_committed_text' = last_committed_text
          /\ transcript_log' = transcript_log )]_vars

\* an echo tick has ended on a non-empty buffer
C8_Witness ==
  /\ lpc = "top"
  /\ EchoTick
  /\ Len(tick_log) = 2
  /\ local_audio_buffer # <<>>

EnqueuedSamples == next_id * FrameSamples

\* C9: when a drain ends the queue is empty and the buffer holds every sample
\* enqueued so far except those of committed buffers; samples in the queue,
\* in transit and in the buffer always add up to the enqueued ones; and the
\* sample count of the buffer goes down only in a commit, to zero.
C9_DrainAccounting ==
  [][ /\ NumSamples(local_audio_buffer') + NumSamples(<<data'>>)
           + NumSamples(audio_queue') + committed_samples' = EnqueuedSamples'
      /\ (lpc = "drain" /\ lpc' = "eval")
           => /\ audio_queue' = <<>>
              /\ NumSamples(local_audio_buffer') + committed_samples'
                   = EnqueuedSamples'
      /\ NumSamples(local_audio_buffer') < NumSamples(local_audio_buffer)
           => /\ lpc = "quality_call" /\ lpc' = "top"
              /\ local_audio_buffer' = <<>>
              /\ \E i \in 1..Len(tick_log') :
                   tick_log'[i].ev = "emit" /\ tick_log'[i].final ]_vars

\* a drain has ended after a commit: the buffer holds the later frames only
C9_Witness ==
  /\ lpc = "eval"
  /\ committed_samples > 0
  /\ local_audio_buffer # <<>>

Ids(frames) == [i \in 1..Len(frames) |-> frames[i].id]

\* C10: the frames appended to the buffer so far, the frame in transit and the
\* queued frames are, in this order, the frames delivered so far in arrival
\* order, each once; the buffer holds the latest appended frames in order; a
\* paused tick takes nothing from the queue.
C10_FifoExactlyOnce ==
  /\ appended \o (IF data = NoFrame THEN <<>> ELSE <<data.id>>) \o Ids(audio_queue)
       = [i \in 1..next_id |-> i]
  /\ Len(local_audio_buffer) <= Len(appended)
  /\ Ids(local_audio_buffer)
       = SubSeq(appended, Len(appended) - Len(local_audio_buffer) + 1, Len(appended))
  /\ lpc = "set_paused" => data = NoFrame

\* frames delivered while the loop is paused wait in the queue behind the
\* frames appended before
C10_Witness ==
  /\ pause_event /\ transcription_paused
  /\ lpc = "set_paused"
  /\ appended # <<>>
  /\ audio_queue # <<>>

\* no on_text so far in the tick of thr, and thr has not gone past the while
\* test again
Quiet(thr) ==
  thr.stopped =>
    /\ \A i \in 1..Len(thr.tick_log) : thr.tick_log[i].ev # "emit"
    /\ thr.pc \in {"fast_call", "quality_call", "top", "done"}

\* C11: once a stop() that found the loop thread alive has returned, that
\* thread makes no on_text call and does not enter another tick, an engine
\* call in flight and a later start() included.
C11_QuietAfterStop == Quiet(ActiveThread) /\ Quiet(other)

\* the callback puts no frame while the recorder is stopped
NoFrameWhileStopped ==
  (~rec_running /\ mpc \notin {"os_stream", "rp_stream"}) => next_id' = next_id

\* C12: from the return of AudioRecorder.stop() to the next start() the
\* callback puts no frame on the queue, however the callback and stop()
\* interleave.
C12_NoFrameAfterStop == [][NoFrameWhileStopped]_vars

\* stop() has returned with frames still queued and more to come
C12_Witness ==
  /\ config_window
  /\ mpc = "idle"
  /\ ~rec_running
  /\ audio_queue # <<>>
  /\ next_id < Len(SpokenSentence)

\* a handler step that calls audio_recorder.start()
StartCalled ==
  \/ start_pending /\ ~start_pending'
  \/ config_window /\ ~config_window' /\ mpc = "idle" /\ mpc' = "idle"
  \/ mpc = "rp_new" /\ mpc' = "idle"

\* a handler step of audio_recorder.stop()
StopCalled ==
  /\ mpc \in {"os_join", "rp_join", "os_stream", "rp_stream"}
  /\ mpc' # mpc

RecorderUnchanged ==
  /\ rec_running' = rec_running
  /\ stream' = stream
  /\ open_streams' = open_streams

\* C13: start() on a running recorder and stop() on a stopped one change
\* nothing of the recorder, and at most one input stream is open at any time.
C13_StartStopIdempotent ==
  [][ /\ (StartCalled /\ rec_running) => RecorderUnchanged
      /\ (StopCalled /\ ~rec_running /\ stream = "none") => RecorderUnchanged
      /\ open_streams' <= 1 ]_vars

\* two loop threads that no stop() has seen alive: start_processing and
\* on_config_close have both called start(), the second on the open stream
C13_Witness ==
  /\ Alive(lpc) /\ Alive(other.pc) /\ ~other.own
  /\ ~lstopped /\ ~other.stopped
  /\ stream = "open"
  /\ open_streams = 1

\* C14: a start() on a recorder that is not running ends with the stream
\* open and started, or raises to its caller.
C14_StartFailureRaises ==
  [][(StartCalled /\ ~rec_running) => (stream' = "open" \/ start_error')]_vars

\* start() has raised: the device could not be opened
C14_Witness ==
  /\ start_error
  /\ stream = "none"
  /\ open_streams = 0
  /\ ~start_pending

\* C17: no two loop threads of one Transcriber are alive at once.
C17_OneLoopThread == ~(Alive(lpc) /\ Alive(other.pc) /\ ~other.own)

\* the last thing the tick has done
LastEv(log) == log[Len(log)]

NumEmits(log) == Cardinality({i \in 1..Len(log) : log[i].ev = "emit"})

\* C15: the step in which an engine call raises ends the tick with no on_text,
\* leaves the buffer and the trailing context unchanged and takes the loop
\* thread back to its while test, the stop event untouched.
C15_EngineErrorSkipsTick ==
  [][( /\ InEngine /\ lpc' # lpc
       /\ LastEv(tick_log').ev = "error" )
     => ( /\ lpc' = "top"
          /\ stop_event' = stop_event
          /\ NumEmits(tick_log') = 0
          /\ local_audio_buffer' = local_audio_buffer
          /\ last_committed_text' = last_committed_text
          /\ transcript_log' = transcript_log )]_vars

\* the quality call of a commit has raised
C15_Witness ==
  /\ lpc = "top"
  /\ HasEv("quality")
  /\ LastEv(tick_log).ev = "error"
  /\ local_audio_buffer # <<>>

\* C16: a tick in which an engine call raised has made a status_callback
\* call, and a translation that raised has scheduled a status message.
C16_ErrorsHaveStatus ==
  /\ HasEv("error") => HasEv("status")
  /\ \A t \in Tasks : task[t].raised => task[t].status

\* C18: the text a commit logs and emits as final is never empty.
C18_CommitNeverEmpty ==
  \A i \in 1..Len(tick_log) :
    (tick_log[i].ev = "log" \/ (tick_log[i].ev = "emit" /\ tick_log[i].final))
      => tick_log[i].text # <<>>

HelloWorld == <<"h", "e", "l", "l", "o", " ", "w", "o", "r", "l", "d", ".">>

\* the last k characters of s
Suffix(s, k) == IF Len(s) <= k THEN s ELSE SubSeq(s, Len(s) - k + 1, Len(s))

\* C19: the step that commits the text t logs t once and emits on_text(t,
\* final) once, makes the trailing context the last 1000 characters of the
\* old context, a space and t, and empties the buffer; with an empty context,
\* "hello world." gives " hello world.".
C19_CommitEffects ==
  [][ /\ ( /\ lpc = "quality_call" /\ lpc' # lpc
           /\ LastEv(tick_log').ev # "error" )
        => LET t == LastEv(tick_log').text IN
             /\ tick_log' = tick_log \o << Ev("log", t, TRUE), Ev("emit", t, TRUE) >>
             /\ NumEmits(tick_log') = 1
             /\ transcript_log' = transcript_log + 1
             /\ last_committed_text' =
                  Suffix(last_committed_text \o <<" ">> \o t, CONTEXT_CHARS)
             /\ local_audio_buffer' = <<>>
      /\ AppendContext(<<>>, HelloWorld) = <<" ">> \o HelloWorld ]_vars

\* a sentence has been committed and the context has been cut to its cap
C19_Witness ==
  /\ lpc = "top"
  /\ Emitted(Sentence, TRUE)
  /\ local_audio_buffer = <<>>
  /\ Len(last_committed_text) = CONTEXT_CHARS
  /\ last_committed_text[CONTEXT_CHARS] = "."

\* C20: the trailing context never has more than 1000 characters, and during
\* an engine call the prompt is the last 200 characters of the trailing
\* context, or a single space when the context is empty.
C20_ContextAndPromptCaps ==
  /\ Len(last_committed_text) <= CONTEXT_CHARS
  /\ InEngine =>
       /\ prompt = (IF last_committed_text = <<>> THEN <<" ">>
                    ELSE Suffix(last_committed_text, PROMPT_CHARS))
       /\ Len(prompt) <= PROMPT_CHARS

\* the quality engine is called with a prompt cut from a longer context
C20_Witness ==
  /\ lpc = "quality_call"
  /\ Len(last_committed_text) > PROMPT_CHARS
  /\ Len(prompt) = PROMPT_CHARS

\* the pause check with the request set, and the step after it
PauseObserved ==
  /\ (lpc = "check_pause" /\ pause_event /\ lpc' # lpc) => lpc' = "set_paused"
  /\ (lpc = "set_paused" /\ lpc' # lpc)
       => /\ transcription_paused'
          /\ lpc' = "top"
          /\ audio_queue' = audio_queue
          /\ local_audio_buffer' = local_audio_buffer
          /\ tick_log' = <<>>

\* C21: a pause request made while the loop is inside a tick is seen at the
\* pause check of the next tick, which sets the acknowledged flag and ends
\* the tick with no drain and no engine call; as long as the request stands
\* and the engine calls return, the flag does become true; and a translation
\* task that leaves its wait before the 3 s are over has seen the flag true.
C21_PauseObservedNextTick ==
  /\ [][PauseObserved]_vars
  /\ (pause_event /\ Alive(lpc)) ~> (transcription_paused \/ ~pause_event)
  /\ [](\A t \in {1} :
          (task[t].pc \in {"try", "generate"} /\ task[t].waited < WAIT_TIMEOUT)
            => task[t].acked)

\* the task waited for the loop to come out of its tick, was acknowledged
\* within the 3 s and is translating, the loop paused
C21_Witness ==
  \E t \in {1} :
    /\ task[t].pc = "generate"
    /\ task[t].acked
    /\ task[t].waited > 0
    /\ task[t].waited < WAIT_TIMEOUT
    /\ pause_event
    /\ transcription_paused
    /\ lpc \in {"top", "check_pause", "set_paused"}
    /\ local_audio_buffer # <<>>

\* the pause check with no request, and the step after it
PauseReleased ==
  /\ (lpc = "check_pause" /\ ~pause_event /\ lpc' # lpc) => lpc' = "clear_paused"
  /\ (lpc = "clear_paused" /\ lpc' # lpc)
       => /\ ~transcription_paused'
          /\ lpc' = "drain"

NoTask == \A t \in {1} : task[t].pc = "free"

\* C22: with no pause request the pause check is followed by the step that
\* clears the acknowledged flag and goes on to the drain; a flag that is set
\* with no request standing is cleared by the running loop; no request
\* stands once every translation task has ended, and the loop does not stay
\* paused forever then.
C22_ResumeClearsAck ==
  /\ [][PauseReleased]_vars
  /\ (~pause_event /\ transcription_paused)
       ~> (~transcription_paused \/ pause_event)
  /\ [](NoTask => ~pause_event)
  /\ []<>(~NoTask \/ ~transcription_paused)

\* the translation task has ended (its cleanup is still scheduled) and the
\* loop, the flag cleared, is draining the frames that arrived meanwhile
C22_Witness ==
  /\ NoTask
  /\ cleanup_pending # {}
  /\ ~pause_event
  /\ ~transcription_paused
  /\ lpc = "drain"
  /\ audio_queue # <<>>

\* the translation threads that are alive for the segment seg
InFlight(seg) == {t \in Tasks : task[t].pc # "free" /\ task[t].seg = seg}

\* C23: for each segment at most one translation thread is alive at any
\* time.
C23_OneTaskPerSegment == \A seg \in Segs : Cardinality(InFlight(seg)) <= 1

\* the trailing context and the buffer of self.transcriber
CurContext ==
  IF foreign THEN other.obj.last_committed_text ELSE last_committed_text

CurBuffer ==
  IF foreign THEN other.obj.local_audio_buffer ELSE local_audio_buffer

\* the step of on_config_close
ConfigClosed == config_window /\ ~config_window' /\ mpc = "idle" /\ mpc' = "idle"

\* the step of restart_processing that makes the new Transcriber
Restarted == mpc = "rp_new" /\ mpc' = "idle"

\* C24: the trailing context of the window's Transcriber changes only when
\* a commit appends to it (keeping what fits of the old context) and when
\* restart_processing replaces the Transcriber, after which context and
\* buffer are empty; on_config_close leaves the context as it is.
C24_ContextPerSession ==
  [][ /\ Restarted => (CurContext' = <<>> /\ CurBuffer' = <<>>)
      /\ ConfigClosed => CurContext' = CurContext
      /\ (CurContext' # CurContext /\ ~Restarted)
           => /\ ~foreign
              /\ lpc = "quality_call"
              /\ CurContext' = Suffix(CurContext \o <<" ">>
                                        \o LastEv(tick_log').text, CONTEXT_CHARS)
    ]_vars

\* a sentence was committed and the settings were saved: the new Transcriber
\* has an empty context
C24_Witness ==
  /\ ~foreign
  /\ mpc = "idle"
  /\ ~config_window
  /\ transcript_log > 0
  /\ last_committed_text = <<>>
  /\ local_audio_buffer = <<>>
  /\ lcur
  /\ Alive(lpc)

\* the frames appended so far to the buffer of self.transcriber
CurAppended == IF foreign THEN other.obj.appended ELSE appended

\* C25: every frame appended to the buffer of the window's Transcriber was
\* delivered to the AudioRecorder made together with it: none is a frame the
\* recorder of before the restart had put on the queue.
C25_NoFrameOfOldSession ==
  \A i \in 1..Len(CurAppended) : CurAppended[i] > session_base

\* C26: every entry written to the transcript log comes, in the same commit,
\* with the final on_text of the same text and with the buffer emptied, so
\* that no sample of a logged buffer is committed a second time; this also
\* when the log write or the callback raises.
C26_LoggedOncePerBuffer ==
  [][ transcript_log' # transcript_log
        => /\ transcript_log' = transcript_log + 1
           /\ Len(tick_log') >= 2
           /\ tick_log'[Len(tick_log') - 1].ev = "log"
           /\ LastEv(tick_log')
                = Ev("emit", tick_log'[Len(tick_log') - 1].text, TRUE)
           /\ local_audio_buffer' = <<>> ]_vars

\* C27: a tick in which the fast engine was called ends with the clock of
\* the last attempt set to that tick's time, so that it reads the time since
\* the fast call began, and the fast engine is called only when more than
\* UPDATE_INTERVAL has passed since its last call began.
C27_FastCallStamps ==
  /\ []((lpc = "top" /\ HasEv("fast")) => elapsed = since_fast)
  /\ [][(lpc = "eval" /\ lpc' = "fast_call") => since_fast > update_interval]_vars

\* the buffer is shorter than MIN_DURATION
BelowMin(buf) == NumSamples(buf) * 10 < min_duration * SAMPLE_RATE

\* C28: when the drain of a tick is over nothing has been emitted in the
\* tick, and the step that evaluates a buffer shorter than MIN_DURATION ends
\* the tick with no engine call and no on_text and leaves buffer, context,
\* transcript log and display as they are.
C28_BelowMinDoesNothing ==
  /\ [](lpc = "eval" => tick_log = <<>>)
  /\ [][( /\ lpc = "eval" /\ lpc' # lpc
          /\ BelowMin(local_audio_buffer) )
        => ( /\ lpc' = "top"
             /\ tick_log' = <<>>
             /\ local_audio_buffer' = local_audio_buffer
             /\ last_committed_text' = last_committed_text
             /\ transcript_log' = transcript_log
             /\ segments' = segments )]_vars

\* a tick has drained half a second of speech into the empty buffer and
\* ended with nothing done
C28_Witness ==
  /\ lpc = "top"
  /\ tick_log = <<>>
  /\ ~pause_event
  /\ audio_queue = <<>>
  /\ local_audio_buffer = << ShortFrame >>
  /\ elapsed = ElapsedCap

\* the trailing 0.5 s of the buffer (all of a shorter buffer) has an RMS
\* below SILENCE_THRESHOLD
TrailingSilent(buf) ==
  LET k == Min(last_chunk_len, NumSamples(buf))
  IN  RmsBelowThreshold(TailSumSq(buf, k), k)

\* the commit predicate for a non-empty text on a buffer
CommitPredicate(text, buf) ==
  \/ text[Len(text)] \in {".", "!", "?"} /\ TrailingSilent(buf)
  \/ NumSamples(buf) * 10 > max_duration * SAMPLE_RATE

\* C29: the step that receives a fast text which is, stripped, not empty and
\* not an echo of the prompt goes on to the commit (the quality call, with no
\* preview) exactly when the text ends with '.', '!' or '?' and the trailing
\* 0.5 s are silent, or the buffer is longer than MAX_DURATION; otherwise it
\* ends the tick with one emission, the non-final preview of that text, and
\* changes neither buffer nor context nor log.
C29_CommitIffPredicate ==
  [][( /\ lpc = "fast_call" /\ lpc' # lpc
       /\ Len(tick_log') > Len(tick_log)
       /\ tick_log'[Len(tick_log) + 1].ev = "heard"
       /\ Strip(tick_log'[Len(tick_log) + 1].text) # <<>>
       /\ ~IsEcho(tick_log'[Len(tick_log) + 1].text, prompt) )
     => LET text == Strip(tick_log'[Len(tick_log) + 1].text) IN
          IF CommitPredicate(text, local_audio_buffer)
          THEN /\ lpc' = "quality_call"
               /\ LastEv(tick_log').ev = "quality"
               /\ NumEmits(tick_log') = 0
          ELSE /\ lpc' = "top"
               /\ LastEv(tick_log') = Ev("emit", text, FALSE)
               /\ NumEmits(tick_log') = 1
               /\ local_audio_buffer' = local_audio_buffer
               /\ last_committed_text' = last_committed_text
               /\ transcript_log' = transcript_log ]_vars

\* a sentence was heard while the speaker goes on: the text ends with a full
\* stop, the trailing half second is loud, the tick has emitted a preview
C29_Witness ==
  /\ lpc = "top"
  /\ Emitted(Sentence, FALSE)
  /\ local_audio_buffer # <<>>
  /\ ~TrailingSilent(local_audio_buffer)

NumCalls(log, kind) == Cardinality({i \in 1..Len(log) : log[i].ev = kind})

\* C30: while the quality engine is called the tick has made one fast call
\* and this one quality call, both with the same prompt, and the commit
\* predicate holds for the fast text on the buffer, which no step changes
\* between the two calls; a tick has at most one quality call, exactly one
\* when it has committed, and a tick with a quality call has made no
\* preview.
C30_QualityOnlyAtCommit ==
  /\ [](lpc = "quality_call"
          => /\ Len(tick_log) = 3
             /\ tick_log[1].ev = "fast"
             /\ tick_log[2].ev = "heard"
             /\ tick_log[3].ev = "quality"
             /\ tick_log[3].text = tick_log[1].text
             /\ prompt = tick_log[1].text
             /\ Strip(tick_log[2].text) # <<>>
             /\ ~IsEcho(tick_log[2].text, tick_log[1].text)
             /\ CommitPredicate(Strip(tick_log[2].text), local_audio_buffer))
  /\ [](/\ NumCalls(tick_log, "quality") <= 1
        /\ NumCalls(tick_log, "quality") <= NumCalls(tick_log, "fast")
        /\ (\E i \in 1..Len(tick_log) : tick_log[i].ev = "emit" /\ tick_log[i].final)
             => NumCalls(tick_log, "quality") = 1
        /\ (\E i \in 1..Len(tick_log) : tick_log[i].ev = "emit" /\ ~tick_log[i].final)
             => NumCalls(tick_log, "quality") = 0)
  /\ [][(InEngine /\ local_audio_buffer' # local_audio_buffer)
         => (lpc = "quality_call" /\ lpc' = "top" /\ local_audio_buffer' = <<>>)]_vars

\* a buffer longer than MAX_DURATION is being committed on a fast text that
\* is no sentence, with a prompt cut from the context
C30_Witness ==
  /\ lpc = "quality_call"
  /\ fast_text = Fragment
  /\ NumSamples(local_audio_buffer) * 10 > max_duration * SAMPLE_RATE
  /\ Len(prompt) > 1
  /\ tick_log[3] = Ev("quality", prompt, FALSE)

\* a is the beginning of b
IsPrefix(a, b) == Len(a) <= Len(b) /\ SubSeq(b, 1, Len(a)) = a

\* C31: a step that changes the trailing context, or after which the frames
\* buffered before are no longer the beginning of the buffer, is the end of
\* a commit, which empties the buffer; every other step (of an idle, paused,
\* silent, preview or echo tick, or of a tick whose engine call raised)
\* leaves the context as it is and the buffered frames in place.
C31_OnlyCommitShrinks ==
  [][( \/ last_committed_text' # last_committed_text
       \/ ~IsPrefix(local_audio_buffer, local_audio_buffer') )
     => ( /\ lpc = "quality_call"
          /\ lpc' = "top"
          /\ local_audio_buffer' = <<>>
          /\ LastEv(tick_log').ev = "emit"
          /\ LastEv(tick_log').final )]_vars

\* a preview tick has drained a second frame behind the first, the context
\* of the earlier commit is as it was
C31_Witness ==
  /\ lpc = "top"
  /\ Emitted(Fragment, FALSE)
  /\ Len(local_audio_buffer) = 2
  /\ appended = <<1, 2>>
  /\ audio_queue = <<>>
  /\ last_committed_text = AppendContext(<<>>, Sentence)

\* ------------------------------------------------- the display of on_text
MaxDisplay == 12
ShownTexts == {<<>>, Fragment, Sentence}

\* update_text(text, is_final), scheduled by schedule_update_text for every
\* on_text emission, in emission order; para: more than paragraph_threshold
\* seconds have passed since the last final text
UpdateText(text, final, para) ==
  /\ Len(text_area) < MaxDisplay
  /\ text_area' = UpdateTextArea(text_area, text, final, para)
  /\ last_on_text' = [text |-> text, final |-> final]
  /\ segments' = IF final /\ text # <<>> THEN segments + 1 ELSE segments
  /\ UNCHANGED << stop_event, local_audio_buffer, last_committed_text, elapsed,
                  since_fast, lpc, data, prompt, fast_text, tick_log, appended,
                  committed_samples, transcript_log, active_translations,
                  cleanup_pending, translation_model, preload_pending, task >>
  /\ UNCHANGED << recorderVars, gateVars, lifeVars >>

NextText ==
  \E text \in ShownTexts, final \in BOOLEAN, para \in BOOLEAN :
     UpdateText(text, final, para)

SpecText == Init /\ [][NextText]_vars

\* what update_text may put in front of a text
TextPrefixes == {<<>>, << " " >>, << Newline, Newline >>}

\* C32: on the display no committed character stands behind a pending one,
\* and every applied emission leaves the committed characters as they were,
\* extended by the text (behind its prefix) when it is a non-empty commit,
\* while the pending characters are the text (behind its prefix) when it is
\* a non-empty preview and none after an empty emission or a commit.
C32_CommittedThenOnePreview ==
  /\ [](\A i, j \in 1..Len(text_area) :
          text_area[i].tag = "pending" /\ text_area[j].tag = "seg" => j < i)
  /\ [][( text_area' # text_area \/ last_on_text' # last_on_text )
        => \E pre \in TextPrefixes :
             LET t == last_on_text'.text
                 f == last_on_text'.final
             IN  /\ TaggedChars(text_area', "seg") =
                       TaggedChars(text_area, "seg") \o
                         (IF f /\ t # <<>> THEN pre \o t ELSE <<>>)
                 /\ TaggedChars(text_area', "pending") =
                       (IF ~f /\ t # <<>> THEN pre \o t ELSE <<>>)]_vars

\* two committed sentences are shown, a preview replaced an earlier preview
C32_Witness ==
  /\ segments = 2
  /\ TaggedChars(text_area, "seg") = Sentence \o << " " >> \o Sentence
  /\ TaggedChars(text_area, "pending") = << " " >> \o Fragment
  /\ last_on_text = [text |-> Fragment, final |-> FALSE]

\* ----------------------------------------------------- stop() while paused
\* From construction or from InitPaused on: the window with its translation
\* thread, the hardware, the loop thread, and open_settings, whose
\* transcriber.stop() sets the stop event of the Transcriber; the settings
\* window stays open.
NextStop ==
  \/ \E res \in StartResults : StartProcessing(res)
  \/ CallbackEnter
  \/ \E amp \in Amps : AudioCallback(amp)
  \/ LoopStep({Fragment, Sentence}, {Sentence})
  \/ Window({1})
  \/ OpenSettings
  \/ StopJoined
  \/ StreamStopped

SpecStop ==
  /\ InitLifeSet
  /\ [][NextStop]_vars
  /\ WF_vars(LoopStep({Fragment, Sentence}, {Sentence}))

\* C33: with the stop event set, the while test ends the loop thread also
\* when a pause is requested; a paused tick leads straight back to the while
\* test; so a loop that is stopped while the pause request stands ends, after
\* at most the paused tick it is in.
C33_StopHonouredWhilePaused ==
  /\ [][(lpc = "top" /\ stop_event /\ pause_event /\ lpc' # lpc)
          => lpc' = "done"]_vars
  /\ [][(lpc = "set_paused" /\ stop_event /\ lpc' # lpc) => lpc' = "top"]_vars
  /\ (stop_event /\ pause_event /\ Alive(lpc)) ~> (~Alive(lpc) \/ ~pause_event)

\* the loop thread has ended while the pause request of the waiting
\* translation thread stands and is acknowledged
C33_Witness ==
  /\ lpc = "done"
  /\ stop_event
  /\ pause_event
  /\ transcription_paused
  /\ task[1].pc = "wait"

\* ------------------------------------- a restart while a segment translates
\* The running session of InitGate at the moment the translation thread of
\* the first segment, just started by on_text_click, is about to call
\* pause(); the loop thread has just passed its while test.
InitSwap ==
  /\ audio_queue = SubSeq(SpokenSentence, 2, 2)
  /\ next_id = 2
  /\ rec_running = TRUE
  /\ stop_event = FALSE
  /\ pause_event = FALSE
  /\ transcription_paused = FALSE
  /\ local_audio_buffer = SubSeq(SpokenSentence, 1, 1)
  /\ last_committed_text = TwoSentences
  /\ elapsed = ElapsedCap
  /\ since_fast = ElapsedCap
  /\ lpc = "check_pause"
  /\ data = NoFrame
  /\ prompt = <<>>
  /\ fast_text = <<>>
  /\ tick_log = <<>>
  /\ appended = <<1>>
  /\ committed_samples = 0
  /\ transcript_log = 2
  /\ segments = 2
  /\ active_translations = {1}
  /\ cleanup_pending = {}
  /\ translation_model = FALSE
  /\ preload_pending = FALSE
  /\ task = [t \in Tasks |->
               IF t = 1 THEN [FreeTask EXCEPT !.pc = "pause", !.seg = 1]
               ELSE FreeTask]
  /\ text_area = DisplayOf(segments)
  /\ last_on_text = NoEmission
  /\ RunningLife

\* the translation thread, the loop thread of the window's Transcriber, and
\* the settings window with on_config_close and restart_processing; a loop
\* thread that outlives its join stays inside its engine call
NextSwap ==
  \/ LoopStep({Fragment, Sentence}, {Sentence})
  \/ Settings
  \/ TaskStep(1)
  \/ \E seg \in Segs : CleanupLock(seg)

SpecSwap == InitSwap /\ [][NextSwap]_vars

\* the pause request of the Transcriber that self.transcriber names
CurPauseEvent == IF foreign THEN other.obj.pause_event ELSE pause_event

\* C34: while a translation thread is between its wait and its resume(), the
\* pause request it made stands on the Transcriber of the window, the one a
\* resume() will act on.
C34_TranslatingPausesCurrent ==
  \A t \in {1} : task[t].pc \in {"try", "generate", "finally"} => CurPauseEvent

\* C35: the running flag of the AudioRecorder is set only while its stream
\* is open; in particular it is clear after a start() that raised.
C35_RunningOnlyWithStream == rec_running => stream = "open"

\* --------------------------------------------- the module-level pipeline
\* run_transcription_loop of src/transcriber.py with the stop_event of
\* app_config, started by CaptionWindow.__init__ of src/ui.py.  lpc is the
\* position of the processing thread, stream the InputStream of its with
\* block, config_window says that the ConfigWindow is showing instead of the
\* CaptionWindow.

\* what this pipeline does not use
LegacyRest ==
  << rec_running, gateVars, since_fast, data, prompt, fast_text, segments,
     uiVars, cb_pc, mpc, start_pending, session_base, lcur, lstopped, other,
     foreign >>

\* the application has opened its ConfigWindow: nothing is running yet
InitLegacy ==
  /\ InitTranscriber
  /\ InitRecorder
  /\ InitWindow
  /\ stream = "none"
  /\ cb_pc = "idle"
  /\ open_streams = 0
  /\ start_error = FALSE
  /\ mpc = "idle"
  /\ config_window = TRUE
  /\ start_pending = FALSE
  /\ session_base = 0
  /\ lcur = TRUE
  /\ lstopped = FALSE
  /\ other = NoOther
  /\ foreign = FALSE

\* the locals, status_callback, and with sd.InputStream(...): the stream is
\* open inside the block; an exception ends the thread (Critical Error)
LegacyEntry(ok) ==
  /\ lpc = "entry"
  /\ local_audio_buffer' = <<>>
  /\ last_committed_text' = <<>>
  /\ elapsed' = ElapsedCap
  /\ appended' = <<>>
  /\ tick_log' = <<Ev("status", <<>>, FALSE)>>
  /\ IF ok
     THEN /\ stream' = "open"
          /\ open_streams' = open_streams + 1
          /\ start_error' = FALSE
          /\ lpc' = "top"
     ELSE /\ start_error' = TRUE
          /\ lpc' = "done"
          /\ UNCHANGED << stream, open_streams >>
  /\ UNCHANGED << audio_queue, next_id, stop_event, committed_samples,
                  transcript_log, config_window, LegacyRest >>

\* while not stop_event.is_set(): leaving the loop leaves the with block
LegacyTop ==
  /\ lpc = "top"
  /\ IF stop_event
     THEN /\ lpc' = "done"
          /\ stream' = "none"
          /\ open_streams' = open_streams - 1
     ELSE /\ lpc' = "drain"
          /\ UNCHANGED << stream, open_streams >>
  /\ tick_log' = <<>>
  /\ UNCHANGED << audio_queue, next_id, stop_event, local_audio_buffer,
                  last_committed_text, elapsed, appended, committed_samples,
                  transcript_log, start_error, config_window, LegacyRest >>

\* callback=audio_callback of the open stream: a frame may reach the queue
LegacyCallback(amp) ==
  /\ stream = "open"
  /\ next_id < MaxFrames
  /\ next_id' = next_id + 1
  /\ audio_queue' =
       Append(audio_queue, [id |-> next_id + 1, n |-> FrameSamples, amp |-> amp])
  /\ UNCHANGED << stop_event, local_audio_buffer, last_committed_text, elapsed,
                  lpc, tick_log, appended, committed_samples, transcript_log,
                  stream, open_streams, start_error, config_window, LegacyRest >>

\* 1. Drain Queue: every queued frame behind the buffer
LegacyDrain ==
  /\ lpc = "drain"
  /\ local_audio_buffer' = local_audio_buffer \o audio_queue
  /\ appended' = appended \o [i \in 1..Len(audio_queue) |-> audio_queue[i].id]
  /\ audio_queue' = <<>>
  /\ lpc' = "tick"
  /\ UNCHANGED << next_id, stop_event, last_committed_text, elapsed, tick_log,
                  committed_samples, transcript_log, stream, open_streams,
                  start_error, config_window, LegacyRest >>

\* 2. Transcribe? to the sd.sleep(50) that ends the tick; raw and rawq are
\* what the fast and the quality engine return, raises: an engine call raises
LegacyTick(raw, rawq, raises) ==
  /\ lpc = "tick"
  /\ lpc' = "top"
  /\ IF ~TickEvaluated(local_audio_buffer, elapsed)
     THEN /\ elapsed' \in AfterSleep(elapsed)
          /\ UNCHANGED << local_audio_buffer, last_committed_text, tick_log,
                          committed_samples, transcript_log >>
     ELSE IF SilenceSkip(local_audio_buffer)
     THEN /\ tick_log' = Append(tick_log, Ev("emit", <<>>, FALSE))
          /\ elapsed' \in AfterSleep(elapsed)
          /\ UNCHANGED << local_audio_buffer, last_committed_text,
                          committed_samples, transcript_log >>
     ELSE IF raises
     THEN /\ elapsed' \in AfterSleep(elapsed)
          /\ UNCHANGED << local_audio_buffer, last_committed_text, tick_log,
                          committed_samples, transcript_log >>
     ELSE LET text == EchoFilter(raw, BuildPrompt(last_committed_text))
              final_text == IF Strip(rawq) # <<>> THEN Strip(rawq) ELSE text
          IN  /\ elapsed' \in AfterStamp
              /\ IF text = <<>>
                 THEN UNCHANGED << local_audio_buffer, last_committed_text,
                                   tick_log, committed_samples, transcript_log >>
                 ELSE IF ShouldCommit(text, local_audio_buffer)
                 THEN /\ transcript_log' = transcript_log + 1
                      /\ tick_log' = Append(tick_log, Ev("emit", final_text, TRUE))
                      /\ last_committed_text' =
                           AppendContext(last_committed_text, final_text)
                      /\ committed_samples' =
                           committed_samples + NumSamples(local_audio_buffer)
                      /\ local_audio_buffer' = <<>>
                 ELSE /\ tick_log' = Append(tick_log, Ev("emit", text, FALSE))
                      /\ UNCHANGED << local_audio_buffer, last_committed_text,
                                      committed_samples, transcript_log >>
  /\ UNCHANGED << audio_queue, next_id, stop_event, appended, stream,
                  open_streams, start_error, config_window, LegacyRest >>

\* open_settings, confirmed: stop_event.set(), root.destroy(), ConfigWindow()
LegacyOpenSettings ==
  /\ ~config_window
  /\ stop_event' = TRUE
  /\ config_window' = TRUE
  /\ UNCHANGED << audio_queue, next_id, local_audio_buffer, last_committed_text,
                  elapsed, lpc, tick_log, appended, committed_samples,
                  transcript_log, stream, open_streams, start_error,
                  LegacyRest >>

\* ConfigWindow.start_app: a new CaptionWindow, whose __init__ starts a new
\* processing thread; the thread of the window before has ended by then
LegacyStartApp ==
  /\ config_window
  /\ ~Alive(lpc)
  /\ config_window' = FALSE
  /\ lpc' = "entry"
  /\ UNCHANGED << audio_queue, next_id, stop_event, local_audio_buffer,
                  last_committed_text, elapsed, tick_log, appended,
                  committed_samples, transcript_log, stream, open_streams,
                  start_error, LegacyRest >>

NextLegacy ==
  \/ \E ok \in BOOLEAN : LegacyEntry(ok)
  \/ LegacyTop
  \/ \E amp \in Amps : LegacyCallback(amp)
  \/ LegacyDrain
  \/ \E raw \in FastTexts, rawq \in QualityTexts, raises \in BOOLEAN :
       LegacyTick(raw, rawq, raises)
  \/ LegacyOpenSettings
  \/ LegacyStartApp

SpecLegacy == InitLegacy /\ [][NextLegacy]_vars

\* C36: while a CaptionWindow is showing whose processing thread could open
\* its input stream, that thread has not left its polling loop.
C36_NewLoopPolls == (~config_window /\ ~start_error) => lpc # "done"

\* ------------------------------------------------ the block-based pipeline
\* CaptionWindow.start_processing of src/live_captions_mac.py.  The buffer,
\* the queue and a chunk are sequences of pieces [id, lo, hi]: the samples
\* lo+1..hi of the frame id; appended holds the drained frames whole, data
\* the chunk a slow-path tick is transcribing.
MaxBlockFrames == 5
BLOCK_SECONDS == 2

\* chunk_samples = int(SAMPLE_RATE * BLOCK_SECONDS)
ChunkSamples == SAMPLE_RATE * BLOCK_SECONDS

PieceLen(p) == p.hi - p.lo

RECURSIVE BlockLen(_)
BlockLen(buf) == IF buf = <<>> THEN 0 ELSE PieceLen(Head(buf)) + BlockLen(Tail(buf))

\* local_audio_buffer[:k]
RECURSIVE TakeSamples(_, _)
TakeSamples(buf, k) ==
  IF k = 0 \/ buf = <<>> THEN <<>>
  ELSE IF PieceLen(Head(buf)) <= k
       THEN << Head(buf) >> \o TakeSamples(Tail(buf), k - PieceLen(Head(buf)))
       ELSE << [Head(buf) EXCEPT !.hi = Head(buf).lo + k] >>

\* a slow path that empties the buffer
DropSamples_Whole(buf, k) == <<>>

\* local_audio_buffer[k:]
RECURSIVE DropSamples(_, _)
DropSamples(buf, k) ==
  IF k = 0 \/ buf = <<>> THEN buf
  ELSE IF PieceLen(Head(buf)) <= k
       THEN DropSamples(Tail(buf), k - PieceLen(Head(buf)))
       ELSE << [Head(buf) EXCEPT !.lo = Head(buf).lo + k] >> \o Tail(buf)

\* the words of text.split()
NumWords(s) ==
  Cardinality({i \in 1..Len(s) : ~IsSpace(s[i]) /\ (i = 1 \/ IsSpace(s[i - 1]))})

\* text = result["text"].strip(); a final period of a text of fewer than
\* four words is cut off
BlockText(raw) ==
  LET t == Strip(raw)
  IN  IF t # <<>> /\ t[Len(t)] = "." /\ NumWords(t) < 4
      THEN SubSeq(t, 1, Len(t) - 1) ELSE t

FourWords == <<"a", " ", "b", " ", "c", " ", "d", ".">>
BlockTexts == {<<>>, <<" ", "h", "i", ".">>, FourWords}

BlockRest ==
  << rec_running, gateVars, last_committed_text, elapsed, since_fast, prompt,
     fast_text, segments, uiVars, cb_pc, start_error, mpc, config_window,
     start_pending, session_base, lcur, lstopped, other, foreign >>

\* CaptionWindow.__init__ starts the thread of start_processing
BlockStart ==
  /\ lpc = "none"
  /\ lpc' = "entry"
  /\ UNCHANGED << audio_queue, next_id, stop_event, local_audio_buffer, data,
                  tick_log, appended, committed_samples, transcript_log,
                  stream, open_streams, BlockRest >>

\* the locals, set_status, with sd.InputStream(...)
BlockEntry ==
  /\ lpc = "entry"
  /\ lpc' = "top"
  /\ local_audio_buffer' = <<>>
  /\ data' = <<>>
  /\ tick_log' = <<Ev("status", <<>>, FALSE)>>
  /\ stream' = "open"
  /\ open_streams' = open_streams + 1
  /\ UNCHANGED << audio_queue, next_id, stop_event, appended,
                  committed_samples, transcript_log, BlockRest >>

\* audio_callback: if not stop_event.is_set(): audio_queue.put(indata.copy())
BlockCallback(n) ==
  /\ stream = "open"
  /\ ~stop_event
  /\ next_id < MaxBlockFrames
  /\ next_id' = next_id + 1
  /\ audio_queue' = Append(audio_queue, [id |-> next_id + 1, lo |-> 0, hi |-> n])
  /\ UNCHANGED << stop_event, local_audio_buffer, lpc, data, tick_log,
                  appended, committed_samples, transcript_log, stream,
                  open_streams, BlockRest >>

\* open_settings and on_close: stop_event.set()
BlockStop ==
  /\ ~stop_event
  /\ stop_event' = TRUE
  /\ UNCHANGED << audio_queue, next_id, local_audio_buffer, lpc, data,
                  tick_log, appended, committed_samples, transcript_log,
                  stream, open_streams, BlockRest >>

\* while not stop_event.is_set():
BlockTop ==
  /\ lpc = "top"
  /\ IF stop_event
     THEN /\ lpc' = "done"
          /\ stream' = "none"
          /\ open_streams' = open_streams - 1
     ELSE /\ lpc' = "drain"
          /\ UNCHANGED << stream, open_streams >>
  /\ tick_log' = <<>>
  /\ UNCHANGED << audio_queue, next_id, stop_event, local_audio_buffer, data,
                  appended, committed_samples, transcript_log, BlockRest >>

\* while not audio_queue.empty(): data = audio_queue.get(); concatenate
BlockDrain ==
  /\ lpc = "drain"
  /\ IF audio_queue = <<>>
     THEN /\ lpc' = "eval"
          /\ UNCHANGED << audio_queue, local_audio_buffer, appended >>
     ELSE /\ audio_queue' = Tail(audio_queue)
          /\ local_audio_buffer' = Append(local_audio_buffer, Head(audio_queue))
          /\ appended' = Append(appended, Head(audio_queue))
          /\ lpc' = "drain"
  /\ UNCHANGED << next_id, stop_event, data, tick_log, committed_samples,
                  transcript_log, stream, open_streams, BlockRest >>

\* the slow path up to its engine call, the fast path up to its engine call
\* (due: more than 0.3 s since the last preview), or neither and sd.sleep(50)
BlockEval(due) ==
  /\ lpc = "eval"
  /\ IF BlockLen(local_audio_buffer) >= ChunkSamples
     THEN /\ data' = TakeSamples(local_audio_buffer, ChunkSamples)
          /\ local_audio_buffer' = DropSamples(local_audio_buffer, ChunkSamples)
          /\ committed_samples' =
               committed_samples + BlockLen(TakeSamples(local_audio_buffer, ChunkSamples))
          /\ lpc' = "slow_call"
     ELSE /\ lpc' = IF BlockLen(local_audio_buffer) * 2 > SAMPLE_RATE /\ due
                    THEN "fast_call" ELSE "top"
          /\ UNCHANGED << data, local_audio_buffer, committed_samples >>
  /\ UNCHANGED << audio_queue, next_id, stop_event, tick_log, appended,
                  transcript_log, stream, open_streams, BlockRest >>

\* the transcription of the chunk returns raw or raises; sd.sleep(50)
BlockSlowEnd(raw, raises) ==
  /\ lpc = "slow_call"
  /\ lpc' = "top"
  /\ data' = <<>>
  /\ IF ~raises /\ BlockText(raw) # <<>>
     THEN /\ transcript_log' = transcript_log + 1
          /\ tick_log' = Append(tick_log, Ev("emit", BlockText(raw), TRUE))
     ELSE UNCHANGED << transcript_log, tick_log >>
  /\ UNCHANGED << audio_queue, next_id, stop_event, local_audio_buffer,
                  appended, committed_samples, stream, open_streams,
                  BlockRest >>

\* the transcription of the whole buffer returns raw or raises; sd.sleep(50)
BlockFastEnd(raw, raises) ==
  /\ lpc = "fast_call"
  /\ lpc' = "top"
  /\ IF ~raises /\ Strip(raw) # <<>>
     THEN tick_log' = Append(tick_log, Ev("emit", Strip(raw), FALSE))
     ELSE UNCHANGED tick_log
  /\ UNCHANGED << audio_queue, next_id, stop_event, local_audio_buffer, data,
                  appended, committed_samples, transcript_log, stream,
                  open_streams, BlockRest >>

NextBlock ==
  \/ BlockStart
  \/ BlockEntry
  \/ \E n \in {FrameSamples, FrameSamples \div 2} : BlockCallback(n)
  \/ BlockStop
  \/ BlockTop
  \/ BlockDrain
  \/ \E due \in BOOLEAN : BlockEval(due)
  \/ \E raw \in BlockTexts, raises \in BOOLEAN : BlockSlowEnd(raw, raises)
  \/ \E raw \in BlockTexts, raises \in BOOLEAN : BlockFastEnd(raw, raises)

SpecBlock == Init /\ [][NextBlock]_vars

\* the place of a piece in the stream of all drained samples
FrameStart(id) ==
  BlockLen(SelectSeq(appended, LAMBDA f : f.id < id))

\* the pieces are, in order and without gap, the samples a+1..b of the stream
Covers(pieces, a, b) ==
  IF pieces = <<>> THEN a = b
  ELSE /\ \A i \in 1..Len(pieces) : pieces[i].lo < pieces[i].hi
       /\ FrameStart(pieces[1].id) + pieces[1].lo = a
       /\ \A i \in 1..(Len(pieces) - 1) :
            FrameStart(pieces[i].id) + pieces[i].hi =
              FrameStart(pieces[i + 1].id) + pieces[i + 1].lo
       /\ FrameStart(pieces[Len(pieces)].id) + pieces[Len(pieces)].hi = b

\* the step of a slow-path tick that cuts the chunk off the buffer
SlowCut == lpc = "eval" /\ lpc' = "slow_call"

\* C37: the buffer is at all times the drained samples behind the committed
\* ones, in order; a slow-path tick cuts off exactly the next ChunkSamples
\* samples, so the k-th chunk is the k-th window of 2.0 s of the stream; no
\* other step (the fast path, the end of an engine call, by return or by
\* exception) removes a sample.
C37_ChunksAreConsecutiveWindows ==
  /\ [](Covers(local_audio_buffer, committed_samples, BlockLen(appended)))
  /\ [][SlowCut =>
          /\ Covers(data', committed_samples, committed_samples + 2 * SAMPLE_RATE)
          /\ committed_samples' = committed_samples + 2 * SAMPLE_RATE]_vars
  /\ [][~SlowCut =>
          /\ committed_samples' = committed_samples
          /\ IsPrefix(local_audio_buffer, local_audio_buffer')]_vars

\* a second chunk has been cut, beginning inside a frame, more audio is left
C37_Witness ==
  /\ lpc = "slow_call"
  /\ committed_samples = 2 * ChunkSamples
  /\ data[1].lo > 0
  /\ local_audio_buffer # <<>>

====
